---------------------------- MODULE Spec2Model ----------------------------
(***************************************************************************)
(* Model of core/src/tokenization.rs: the Tokenization facade (encode,     *)
(* tokenize, decode), the bounded request queue, the tokenizer workers and *)
(* the validation they perform (prompt resolution, character limit,        *)
(* truncation, token limit).                                               *)
(*                                                                         *)
(* Strings are sequences of UTF-8 bytes, Option values are sequences of    *)
(* length 0 (None) or 1 (Some), Results are records with an ok field.      *)
(***************************************************************************)
EXTENDS Integers, Sequences, FiniteSets, TLC

(***************************************************************************)
(* Bounds of the model.                                                    *)
(***************************************************************************)
\* calls submitted in one behaviour with one worker (two fewer with more)
MaxCalls == 5
\* largest worker count given to Tokenization::new
MaxWorkers == 2
\* the first MaxVaried calls submit any request, the later ones the filler
MaxVaried == 2
\* calls whose future the caller drops in one behaviour
MaxCancels == 1
\* the max_input_length of the validation specification, besides 0
MaxInputLength == 3
\* strings of the validation specification hold up to limit + MaxOver chars
MaxOver == 1
\* strings given to apply_limit directly hold up to MaxChars characters
MaxChars == 3
\* pairs given to apply_limit directly hold up to MaxPairChars characters each
MaxPairChars == 2
\* limits given to apply_limit directly
MaxLimit == 13
MaxNear == 3
MaxOffset == 5

(***************************************************************************)
(* Option and Result values.                                               *)
(***************************************************************************)
None == <<>>

Some(x) == <<x>>

is_some(o) == Len(o) = 1

unwrap(o) == o[1]

Ok(v) == [ok |-> TRUE, v |-> v]

Validation(msg) == [ok |-> FALSE, err |-> msg]

\* Err(TextEmbeddingsError::Tokenizer(..)): the failure of the call `op` of
\* the tokenizer, passed on by `?`
TokenizerError(op) ==
    [ok |-> FALSE,
     err |-> [kind |-> "Tokenizer", msg |-> "stand-in: " \o op \o " failed"]]

(***************************************************************************)
(* Strings: UTF-8 byte sequences.                                          *)
(***************************************************************************)
\* u8::is_utf8_char_boundary: (b as i8) >= -0x40
is_utf8_char_boundary(b) == b < 128 \/ b >= 192

\* str::is_char_boundary
is_char_boundary(s, index) ==
    IF index = 0 THEN TRUE
    ELSE IF index >= Len(s) THEN index = Len(s)
    ELSE is_utf8_char_boundary(s[index + 1])

\* the length in bytes instead of the count of characters
chars_count_bytes(s) == Len(s)

\* s.chars().count(): one char per byte that starts a character
chars_count(s) == Cardinality({i \in 1..Len(s) : is_utf8_char_boundary(s[i])})

\* Vec::truncate on the bytes
vec_truncate(s, new_len) == IF new_len < Len(s) THEN SubSeq(s, 1, new_len) ELSE s

\* String::truncate: panics when new_len is inside a character
String_truncate(s, new_len) ==
    IF new_len <= Len(s)
    THEN IF is_char_boundary(s, new_len)
         THEN [panic |-> FALSE, s |-> vec_truncate(s, new_len)]
         ELSE [panic |-> TRUE, s |-> s]
    ELSE [panic |-> FALSE, s |-> s]

\* String::push_str
push_str(a, b) == a \o b

\* n copies of the byte sequence u
RECURSIVE Rep(_, _)
Rep(u, n) ==
    IF n <= 0 THEN <<>>
    ELSE IF n = 1 THEN u
    ELSE Rep(u, n \div 2) \o Rep(u, n - (n \div 2))

(***************************************************************************)
(* EncodingInput.                                                          *)
(***************************************************************************)
Single(s) == [tag |-> "Single", s |-> s]

Dual(s1, s2) == [tag |-> "Dual", s1 |-> s1, s2 |-> s2]

Ids(v) == [tag |-> "Ids", ids |-> v]

\* is_empty that looks at Single strings only
is_empty_single_only(inputs) ==
    CASE inputs.tag = "Single" -> inputs.s = <<>>
      [] OTHER -> FALSE

is_empty(inputs) ==
    CASE inputs.tag = "Single" -> inputs.s = <<>>
      [] inputs.tag = "Dual" -> inputs.s1 = <<>> /\ inputs.s2 = <<>>
      [] inputs.tag = "Ids" -> inputs.ids = <<>>

count_chars(inputs) ==
    CASE inputs.tag = "Single" -> chars_count(inputs.s)
      [] inputs.tag = "Dual" -> chars_count(inputs.s1) + chars_count(inputs.s2)
      [] inputs.tag = "Ids" -> Len(inputs.ids)

\* the closure of apply_limit without its boundary test
truncate_string_unguarded(s, limit) == String_truncate(s, limit)

\* the closure of apply_limit: truncate only at a character boundary
truncate_string(s, limit) ==
    IF is_char_boundary(s, limit)
    THEN String_truncate(s, limit)
    ELSE [panic |-> FALSE, s |-> s]

\* EncodingInput::apply_limit; panic is set when a String::truncate panicked
apply_limit(inputs, limit) ==
    CASE inputs.tag = "Single" ->
            LET t == truncate_string(inputs.s, limit)
            IN  [panic |-> t.panic, inputs |-> Single(t.s)]
      [] inputs.tag = "Dual" ->
            LET t1 == truncate_string(inputs.s1, limit \div 2)
                t2 == truncate_string(inputs.s2, limit \div 2)
            IN  [panic |-> t1.panic \/ t2.panic, inputs |-> Dual(t1.s, t2.s)]
      [] inputs.tag = "Ids" -> [panic |-> FALSE, inputs |-> inputs]


(***************************************************************************)
(* The tokenizer capability (external crate `tokenizers`): a character     *)
(* level stand-in with the interface the worker uses.  Its only mutable    *)
(* state is the truncation configuration; `last` records the arguments of  *)
(* the most recent encode call.                                            *)
(***************************************************************************)
\* TruncationParams built by encode_input
TruncationParams(direction, max_length) ==
    [direction |-> direction, max_length |-> max_length,
     strategy |-> "LongestFirst", stride |-> 0]

\* the tokenizer every worker is given a clone of
NewTokenizer == [truncation |-> None, last |-> None, fails |-> {}]

\* a tokenizer whose calls named in `fails` ("with_truncation", "encode",
\* "decode") return Err
FailingTokenizer(fails) == [NewTokenizer EXCEPT !.fails = fails]

\* the call `op` of tok returns Err
fails(tok, op) == op \in tok.fails

\* Tokenizer::with_truncation
with_truncation(tok, params) == [tok EXCEPT !.truncation = params]

BOS == 0

EOS == 2

UNK == 3

\* vocabulary: id of one character
CharId(ch) ==
    CASE ch = <<97>> -> 4
      [] ch = <<98>> -> 5
      [] ch = <<232, 191, 153>> -> 6
      [] ch = <<195, 169>> -> 7
      [] OTHER -> UNK

\* vocabulary: text of one id
IdText(id) ==
    CASE id = 4 -> <<97>>
      [] id = 5 -> <<98>>
      [] id = 6 -> <<232, 191, 153>>
      [] id = 7 -> <<195, 169>>
      [] id = BOS -> <<60, 115, 62>>
      [] id = EOS -> <<60, 47, 115, 62>>
      [] OTHER -> <<63>>

IsSpecialId(id) == id \in {BOS, 1, EOS, UNK}

\* byte positions (1-based) in lo..hi at which a character starts, in order
RECURSIVE CharStarts(_, _, _)
CharStarts(s, lo, hi) ==
    IF lo > hi THEN <<>>
    ELSE IF lo = hi
         THEN (IF is_utf8_char_boundary(s[lo]) THEN <<lo>> ELSE <<>>)
         ELSE LET mid == (lo + hi) \div 2
              IN  CharStarts(s, lo, mid) \o CharStarts(s, mid + 1, hi)

\* one token per character of s, whose characters start at `starts`
TokensAt(s, starts, type_id) ==
    [k \in 1..Len(starts) |->
        LET start == starts[k] - 1
            stop == IF k < Len(starts) THEN starts[k + 1] - 1 ELSE Len(s)
        IN  [id |-> CharId(SubSeq(s, start + 1, stop)), type_id |-> type_id,
             special |-> 0, start |-> start, stop |-> stop]]

\* one token per character of s, with byte offsets [start, stop)
CharTokens(s, type_id) == TokensAt(s, CharStarts(s, 1, Len(s)), type_id)

SpecialToken(id, type_id) ==
    [id |-> id, type_id |-> type_id, special |-> 1, start |-> 0, stop |-> 0]

\* keep n tokens of seq at the side the direction preserves
KeepTokens(seq, n, direction) ==
    IF n >= Len(seq) THEN seq
    ELSE IF direction = "Right" THEN SubSeq(seq, 1, n)
    ELSE SubSeq(seq, Len(seq) - n + 1, Len(seq))

Max(a, b) == IF a >= b THEN a ELSE b

\* longest-first truncation of a pair to a total of n tokens: the lengths kept
PairKeep(la, lb, n) ==
    IF la + lb <= n THEN <<la, lb>>
    ELSE LET half == n \div 2
         IN  IF la <= half THEN <<la, n - la>>
             ELSE IF lb <= n - half THEN <<n - lb, lb>>
             ELSE <<n - half, half>>

\* the tokens of a and b that the truncation tr keeps, `added` special tokens
\* being counted in its max_length
Truncated(a, b, tr, added) ==
    IF ~is_some(tr) THEN <<a, b>>
    ELSE LET keep == PairKeep(Len(a), Len(b), Max(0, unwrap(tr).max_length - added))
         IN  <<KeepTokens(a, keep[1], unwrap(tr).direction),
               KeepTokens(b, keep[2], unwrap(tr).direction)>>

\* the special tokens put around the kept tokens
WithSpecialTokens(kept, pair, add_special_tokens) ==
    IF ~add_special_tokens THEN kept[1] \o kept[2]
    ELSE IF pair
         THEN <<SpecialToken(BOS, 0)>> \o kept[1]
              \o <<SpecialToken(EOS, 0), SpecialToken(EOS, 1)>> \o kept[2]
              \o <<SpecialToken(EOS, 1)>>
         ELSE <<SpecialToken(BOS, 0)>> \o kept[1] \o <<SpecialToken(EOS, 0)>>

\* Tokenizer::encode: the encoding as a sequence of tokens
tokenizer_encode(tok, input, add_special_tokens) ==
    WithSpecialTokens(
        Truncated(CharTokens(input.a, 0),
                  IF input.pair THEN CharTokens(input.b, 1) ELSE <<>>,
                  tok.truncation,
                  IF ~add_special_tokens THEN 0 ELSE IF input.pair THEN 4 ELSE 2),
        input.pair, add_special_tokens)

\* the tokenizer after an encode call: the call is recorded
encoded(tok, input, add_special_tokens) ==
    [tok EXCEPT !.last = Some([input |-> input,
                               add_special_tokens |-> add_special_tokens,
                               truncation |-> tok.truncation])]

RECURSIVE ConcatTexts(_, _, _)
ConcatTexts(ids, lo, hi) ==
    IF lo > hi THEN <<>>
    ELSE IF lo = hi THEN IdText(ids[lo])
    ELSE LET mid == (lo + hi) \div 2
         IN  ConcatTexts(ids, lo, mid) \o ConcatTexts(ids, mid + 1, hi)

\* Tokenizer::decode
tokenizer_decode(ids, skip_special_tokens) ==
    LET kept == IF skip_special_tokens
                THEN SelectSeq(ids, LAMBDA id : ~IsSpecialId(id))
                ELSE ids
    IN  ConcatTexts(kept, 1, Len(kept))

TextInput(s) == [pair |-> FALSE, a |-> s]

PairInput(s1, s2) == [pair |-> TRUE, a |-> s1, b |-> s2]

get_ids(encoding) == [k \in 1..Len(encoding) |-> encoding[k].id]

get_type_ids(encoding) == [k \in 1..Len(encoding) |-> encoding[k].type_id]

get_tokens(encoding) == [k \in 1..Len(encoding) |-> IdText(encoding[k].id)]

(***************************************************************************)
(* Validation performed by a worker.  Each function returns the reply       *)
(* (`ret`) together with the worker's tokenizer after the call.             *)
(***************************************************************************)
MAX_CHAR_MULTIPLIER == 250

\* prepare_pre_prompt falling back to the default prompt for a name that does
\* not resolve
prepare_pre_prompt_lenient(dflt, prompt_name, table) ==
    IF is_some(prompt_name) /\ is_some(table)
           /\ unwrap(prompt_name) \in DOMAIN unwrap(table)
    THEN Ok(Some(unwrap(table)[unwrap(prompt_name)]))
    ELSE Ok(dflt)

\* prepare_pre_prompt: Ok(Option<String>) or a Validation error
prepare_pre_prompt(dflt, prompt_name, table) ==
    IF is_some(prompt_name)
    THEN IF ~is_some(table)
         THEN Validation([kind |-> "NoPrompts", name |-> unwrap(prompt_name)])
         ELSE IF unwrap(prompt_name) \notin DOMAIN unwrap(table)
              THEN Validation([kind |-> "PromptNotFound",
                               name |-> unwrap(prompt_name),
                               available |-> DOMAIN unwrap(table)])
              ELSE Ok(Some(unwrap(table)[unwrap(prompt_name)]))
    ELSE Ok(dflt)

\* run_encode that sets the truncation of the tokenizer only when the request
\* has truncation parameters, and otherwise leaves the one in force
run_encode_stale(tok, truncate_params, input, add_special_tokens, text) ==
    [ret |-> Ok([text |-> text,
                 encoding |->
                     tokenizer_encode(IF is_some(truncate_params)
                                      THEN with_truncation(tok, truncate_params)
                                      ELSE tok,
                                      input, add_special_tokens)]),
     tokenizer |-> encoded(IF is_some(truncate_params)
                           THEN with_truncation(tok, truncate_params)
                           ELSE tok,
                           input, add_special_tokens),
     panic |-> FALSE]

\* with_truncation(truncate_params)?.encode(input, add_special_tokens)? and
\* the pair (text, encoding) tokenize_input returns; a failure of
\* with_truncation leaves the tokenizer as it was, a failure of encode comes
\* after the truncation was set
run_encode(tok, truncate_params, input, add_special_tokens, text) ==
    IF fails(tok, "with_truncation")
    THEN [ret |-> TokenizerError("with_truncation"), tokenizer |-> tok,
          panic |-> FALSE]
    ELSE IF fails(tok, "encode")
    THEN [ret |-> TokenizerError("encode"),
          tokenizer |-> encoded(with_truncation(tok, truncate_params), input,
                                add_special_tokens),
          panic |-> FALSE]
    ELSE [ret |-> Ok([text |-> text,
                      encoding |->
                          tokenizer_encode(with_truncation(tok, truncate_params),
                                           input, add_special_tokens)]),
          tokenizer |-> encoded(with_truncation(tok, truncate_params), input,
                                add_special_tokens),
          panic |-> FALSE]

\* the pre-prompt pushed after s instead of s after the pre-prompt
prefixed_after(pre_prompt, s) ==
    IF is_some(pre_prompt) THEN push_str(s, unwrap(pre_prompt)) ELSE s

\* pre_prompt.push_str(&s), or s without a pre-prompt
prefixed(pre_prompt, s) ==
    IF is_some(pre_prompt) THEN push_str(unwrap(pre_prompt), s) ELSE s

\* the arm of a Dual input without the test of the pre-prompt
dual_match_unchecked(s1, s2, add_special_tokens, truncate_params, pre_prompt, tok) ==
    run_encode(tok, truncate_params, PairInput(s1, s2), add_special_tokens, None)

\* the arm of a Dual input: an error under a pre-prompt, else the pair encoded
dual_match(s1, s2, add_special_tokens, truncate_params, pre_prompt, tok) ==
    IF is_some(pre_prompt)
    THEN [ret |-> Validation([kind |-> "PromptWithDual"]),
          tokenizer |-> tok, panic |-> FALSE]
    ELSE run_encode(tok, truncate_params, PairInput(s1, s2),
                    add_special_tokens, None)

\* tokenize_input, from the match on the (possibly limited) inputs onwards
tokenize_match(inputs, add_special_tokens, truncate_params, pre_prompt, tok) ==
    CASE inputs.tag = "Single" ->
            run_encode(tok, truncate_params,
                       TextInput(prefixed(pre_prompt, inputs.s)),
                       add_special_tokens, Some(prefixed(pre_prompt, inputs.s)))
      [] inputs.tag = "Dual" ->
            dual_match(inputs.s1, inputs.s2, add_special_tokens, truncate_params,
                       pre_prompt, tok)
      [] inputs.tag = "Ids" ->
            IF fails(tok, "decode")
            THEN [ret |-> TokenizerError("decode"), tokenizer |-> tok,
                  panic |-> FALSE]
            ELSE IF is_some(pre_prompt)
            THEN run_encode(tok, truncate_params,
                            TextInput(prefixed(pre_prompt,
                                               tokenizer_decode(inputs.ids, TRUE))),
                            TRUE,
                            Some(prefixed(pre_prompt,
                                          tokenizer_decode(inputs.ids, TRUE))))
            ELSE run_encode(tok, truncate_params,
                            TextInput(tokenizer_decode(inputs.ids, FALSE)),
                            FALSE, Some(tokenizer_decode(inputs.ids, FALSE)))

\* the character limit of tokenize_input
char_limit(max_len) == max_len * MAX_CHAR_MULTIPLIER

\* tokenize_input after inputs.apply_limit(limit)
after_limit(limited, add_special_tokens, truncate_params, pre_prompt, tok) ==
    IF limited.panic
    THEN [ret |-> None, tokenizer |-> tok, panic |-> TRUE]
    ELSE tokenize_match(limited.inputs, add_special_tokens, truncate_params,
                        pre_prompt, tok)

\* tokenize_input after prepare_pre_prompt: the character limit
length_guard(pre_prompt, inputs, add_special_tokens, max_len, truncate_params, tok) ==
    IF ~pre_prompt.ok THEN [ret |-> pre_prompt, tokenizer |-> tok, panic |-> FALSE]
    ELSE IF count_chars(inputs) > char_limit(max_len)
         THEN IF ~is_some(truncate_params)
              THEN [ret |-> Validation([kind |-> "CharLimit",
                                        limit |-> char_limit(max_len),
                                        given |-> count_chars(inputs)]),
                    tokenizer |-> tok, panic |-> FALSE]
              ELSE after_limit(apply_limit(inputs, char_limit(max_len)),
                               add_special_tokens, truncate_params, pre_prompt.v, tok)
         ELSE tokenize_match(inputs, add_special_tokens, truncate_params,
                             pre_prompt.v, tok)

\* tokenize_input
tokenize_input(inputs, add_special_tokens, max_len, truncate_params, dflt, prompt_name, table, tok) ==
    length_guard(prepare_pre_prompt(dflt, prompt_name, table), inputs,
                 add_special_tokens, max_len, truncate_params, tok)

\* Machine words.  A usize or a u32 is written in base 2^16 as
\* [hi |-> h, lo |-> l], the number h * 2^16 + l with l < 2^16: a u32 has
\* h < 2^16.  The words of this model stay below 2^47, where a usize sum does
\* not overflow.
Limb == 65536

\* the usize n
Usize(n) == [hi |-> n \div Limb, lo |-> n % Limb]

\* seq_len + position_offset, a usize
usize_add(n, x) == [hi |-> x.hi + (x.lo + n) \div Limb, lo |-> (x.lo + n) % Limb]

\* `as u32` of a usize: the value modulo 2^32
AsU32(x) == [hi |-> x.hi % Limb, lo |-> x.lo]

\* a < b for u32
u32_lt(a, b) == a.hi < b.hi \/ (a.hi = b.hi /\ a.lo < b.lo)

\* the range a..b of u32 values, collected
RangeU32(a, b) ==
    IF u32_lt(a, b)
    THEN [k \in 1..((b.hi - a.hi) * Limb + b.lo - a.lo) |-> usize_add(k - 1, a)]
    ELSE <<>>

\* encode_input without the test of the token limit
valid_encoding_unchecked(t, max_len, offset) ==
    IF t.panic \/ ~t.ret.ok THEN t
    ELSE [t EXCEPT !.ret =
             Ok([input_ids |-> get_ids(t.ret.v.encoding),
                 token_type_ids |-> get_type_ids(t.ret.v.encoding),
                 position_ids |->
                     RangeU32(AsU32(offset),
                              AsU32(usize_add(Len(t.ret.v.encoding), offset)))])]

\* encode_input after tokenize_input(..)?: the token limit and the ValidEncoding
valid_encoding(t, max_len, offset) ==
    IF t.panic \/ ~t.ret.ok THEN t
    ELSE IF Len(t.ret.v.encoding) > max_len
         THEN [t EXCEPT !.ret = Validation([kind |-> "TokenLimit",
                                            limit |-> max_len,
                                            given |-> Len(t.ret.v.encoding)])]
         ELSE [t EXCEPT !.ret =
                  Ok([input_ids |-> get_ids(t.ret.v.encoding),
                      token_type_ids |-> get_type_ids(t.ret.v.encoding),
                      position_ids |->
                          RangeU32(AsU32(offset),
                                   AsU32(usize_add(Len(t.ret.v.encoding), offset)))])]

\* encode_input
encode_input(inputs, truncate, truncation_direction, max_len, offset, dflt, prompt_name, table, tok) ==
    valid_encoding(
        tokenize_input(inputs, TRUE, max_len,
                       IF truncate
                       THEN Some(TruncationParams(truncation_direction, max_len))
                       ELSE None,
                       dflt, prompt_name, table, tok),
        max_len, offset)

\* decode_ids: the reply holds the decoded text
decode_ids(ids, skip_special_tokens, tok) ==
    IF fails(tok, "with_truncation")
    THEN [ret |-> TokenizerError("with_truncation"), tokenizer |-> tok,
          panic |-> FALSE]
    ELSE IF fails(tok, "decode")
    THEN [ret |-> TokenizerError("decode"),
          tokenizer |-> with_truncation(tok, None), panic |-> FALSE]
    ELSE [ret |-> Ok([text |-> tokenizer_decode(ids, skip_special_tokens)]),
          tokenizer |-> with_truncation(tok, None), panic |-> FALSE]

(***************************************************************************)
(* into_tokens and the lenient decoding it uses.                           *)
(***************************************************************************)
\* core::str::utf8_char_width: the length the first byte of a character
\* announces, 0 for a byte that starts no character
utf8_char_width(b) ==
    CASE b < 128 -> 1
      [] b \in 194..223 -> 2
      [] b \in 224..239 -> 3
      [] b \in 240..244 -> 4
      [] OTHER -> 0

\* byte j of s (1-based) exists and continues a character
is_continuation(s, j) == j <= Len(s) /\ s[j] \in 128..191

\* the byte after the first byte s[i] of a character of 3 or 4 bytes exists
\* and is one that UTF-8 allows there
second_byte_ok(s, i) ==
    /\ i + 1 <= Len(s)
    /\ CASE s[i] = 224 -> s[i + 1] \in 160..191
         [] s[i] = 237 -> s[i + 1] \in 128..159
         [] s[i] = 240 -> s[i + 1] \in 144..191
         [] s[i] = 244 -> s[i + 1] \in 128..143
         [] OTHER -> s[i + 1] \in 128..191

\* Utf8Chunks: the chunk that starts at byte i of s, a character (valid) or the
\* longest run of 1 to 3 bytes that starts a character and does not end it
utf8_chunk(s, i) ==
    CASE utf8_char_width(s[i]) = 0 -> [valid |-> FALSE, len |-> 1]
      [] utf8_char_width(s[i]) = 1 -> [valid |-> TRUE, len |-> 1]
      [] utf8_char_width(s[i]) = 2 ->
            IF is_continuation(s, i + 1) THEN [valid |-> TRUE, len |-> 2]
            ELSE [valid |-> FALSE, len |-> 1]
      [] utf8_char_width(s[i]) = 3 ->
            IF ~second_byte_ok(s, i) THEN [valid |-> FALSE, len |-> 1]
            ELSE IF ~is_continuation(s, i + 2) THEN [valid |-> FALSE, len |-> 2]
            ELSE [valid |-> TRUE, len |-> 3]
      [] utf8_char_width(s[i]) = 4 ->
            IF ~second_byte_ok(s, i) THEN [valid |-> FALSE, len |-> 1]
            ELSE IF ~is_continuation(s, i + 2) THEN [valid |-> FALSE, len |-> 2]
            ELSE IF ~is_continuation(s, i + 3) THEN [valid |-> FALSE, len |-> 3]
            ELSE [valid |-> TRUE, len |-> 4]

\* String::from_utf8_lossy of the bytes of s from byte i on: every chunk that
\* is no character becomes U+FFFD
RECURSIVE lossy_from(_, _)
lossy_from(s, i) ==
    IF i > Len(s) THEN <<>>
    ELSE (IF utf8_chunk(s, i).valid
          THEN SubSeq(s, i, i + utf8_chunk(s, i).len - 1)
          ELSE <<239, 191, 189>>)
             \o lossy_from(s, i + utf8_chunk(s, i).len)

\* String::from_utf8_lossy(&text).to_string()
from_utf8_lossy(s) == lossy_from(s, 1)

\* input.bytes().skip(start).take(n).collect()
skip_take(input, start, n) ==
    SubSeq(input, start + 1, IF start + n < Len(input) THEN start + n ELSE Len(input))

\* stop - start of two usize where the subtraction does not panic: below zero
\* it wraps to 2^64 - (start - stop), which take(..) cuts to what the input
\* has left, as it cuts the length of the input
wrapping_sub(stop, start, input) == IF stop >= start THEN stop - start ELSE Len(input)

\* the closure of into_tokens: the SimpleToken of one position
simple_token(id, special, start, stop, token, input) ==
    IF special = 1
    THEN [id |-> id, text |-> token, special |-> TRUE, start |-> None, stop |-> None]
    ELSE [id |-> id,
          text |-> from_utf8_lossy(
                       skip_take(input, start, wrapping_sub(stop, start, input))),
          special |-> FALSE, start |-> Some(start), stop |-> Some(stop)]

\* into_tokens(encoding, input) in a build with (overflow_checks) or without
\* overflow checks
into_tokens(encoding, input, overflow_checks) ==
    IF overflow_checks
          /\ \E k \in 1..Len(encoding) :
                 encoding[k].special /= 1 /\ encoding[k].stop < encoding[k].start
    THEN [panic |-> TRUE, tokens |-> <<>>]
    ELSE [panic |-> FALSE,
          tokens |-> [k \in 1..Len(encoding) |->
                         simple_token(encoding[k].id, encoding[k].special,
                                      encoding[k].start, encoding[k].stop,
                                      get_tokens(encoding)[k], input)]]

(***************************************************************************)
(* State.                                                                  *)
(***************************************************************************)
VARIABLES
    workers,            \* Tokenization::new: number of workers spawned
    max_input_length,   \* Tokenization::new
    position_offset,    \* Tokenization::new
    default_prompt,     \* Tokenization::new: Option<String>
    prompts,            \* Tokenization::new: Option<HashMap<String, String>>
    handle,             \* a Tokenization (a Sender of the queue) exists
    queue,              \* the bounded channel: envelopes in admission order
    calls,              \* the calls that created a reply channel, by id
    rejected,           \* the call that returned at once in the latest step
    wpc,                \* per worker: its place in tokenizer_worker
    cur,                \* per worker: the envelope it has dequeued
    tokenizer,          \* per worker: its clone of the tokenizer
    admitted,           \* history: call ids in the order they entered the queue
    served,             \* history: call ids in the order workers dequeued them
    limited,            \* the latest direct use of apply_limit, outside the pool
    projected           \* the latest direct use of into_tokens, outside the pool

\* what no step of the facade and of the workers changes
cfg_vars ==
    <<workers, max_input_length, position_offset, default_prompt, prompts, limited,
      projected>>

worker_vars == <<wpc, cur, tokenizer>>

vars == <<workers, max_input_length, position_offset, default_prompt, prompts,
          handle, queue, calls, rejected, wpc, cur, tokenizer, admitted, served,
          limited, projected>>

(***************************************************************************)
(* Requests.                                                               *)
(***************************************************************************)
Encode(inputs, truncate, truncation_direction, prompt_name) ==
    [kind |-> "Encode", inputs |-> inputs, truncate |-> truncate,
     truncation_direction |-> truncation_direction, prompt_name |-> prompt_name]

Tokenize(inputs, add_special_tokens, prompt_name) ==
    [kind |-> "Tokenize", inputs |-> inputs,
     add_special_tokens |-> add_special_tokens, prompt_name |-> prompt_name]

Decode(ids, skip_special_tokens) ==
    [kind |-> "Decode", ids |-> ids, skip_special_tokens |-> skip_special_tokens]

\* the request the calls after the first MaxVaried submit
Filler == Encode(Single(<<97>>), FALSE, "Right", None)

\* the next call may submit r
MaySubmit(r, N) ==
    /\ Len(calls) < N
    /\ Len(calls) < MaxVaried \/ r = Filler

\* the emptiness check that opens encode, tokenize and decode
RequestEmpty(r) == IF r.kind = "Decode" THEN r.ids = <<>> ELSE is_empty(r.inputs)

\* the error the emptiness check returns
EmptyError(r) ==
    IF r.kind = "Decode" THEN Validation([kind |-> "InputIdsEmpty"])
    ELSE Validation([kind |-> "InputsEmpty"])

\* a channel that holds one request more than workers * 4
CapacityOneMore == workers * 4 + 1

\* async_channel::bounded(workers * 4)
Capacity == workers * 4

Workers == 1..workers

CallIds == 1..Len(calls)

\* the worker is in its loop: it has neither panicked nor returned
Live(w) == wpc[w] \in {"recv", "dequeued", "computing"}

\* the worker's thread still owns its Receiver of the queue: it is in its
\* loop, or it panicked and the unwinding has not dropped the Receiver yet
HoldsReceiver(w) == Live(w) \/ wpc[w] = "unwinding"

\* every Receiver of the queue is dropped: send fails
ReceiversGone == \A w \in Workers : ~HoldsReceiver(w)

\* a reply channel that never looks closed to the worker
is_closed_never(c) == FALSE

\* the closed check inverted: true while the caller still holds its Receiver
is_closed_inverted(c) == calls[c].pc \notin {"cancelled", "returned", "panicked"}

\* oneshot::Sender::is_closed: the caller's Receiver is dropped
is_closed(c) == calls[c].pc \in {"cancelled", "returned", "panicked"}

\* a worker answering on the reply channel of the first call
response_tx_of_first(env) == 1

\* the reply channel a worker answers on: the response_tx of its envelope
response_tx(env) == env.id

\* the worker handing the tokenize path the truncation parameters of an encode
Handle_truncating(r, tok) ==
    CASE r.kind = "Encode" ->
            encode_input(r.inputs, r.truncate, r.truncation_direction,
                         max_input_length, position_offset,
                         IF is_some(r.prompt_name) THEN None ELSE default_prompt,
                         r.prompt_name, prompts, tok)
      [] r.kind = "Tokenize" ->
            tokenize_input(r.inputs, r.add_special_tokens, max_input_length,
                           Some(TruncationParams("Right", max_input_length)),
                           IF is_some(r.prompt_name) THEN None ELSE default_prompt,
                           r.prompt_name, prompts, tok)
      [] r.kind = "Decode" -> decode_ids(r.ids, r.skip_special_tokens, tok)

\* what a worker computes for a request with its tokenizer
Handle(r, tok) ==
    CASE r.kind = "Encode" ->
            encode_input(r.inputs, r.truncate, r.truncation_direction,
                         max_input_length, position_offset,
                         IF is_some(r.prompt_name) THEN None ELSE default_prompt,
                         r.prompt_name, prompts, tok)
      [] r.kind = "Tokenize" ->
            tokenize_input(r.inputs, r.add_special_tokens, max_input_length, None,
                           IF is_some(r.prompt_name) THEN None ELSE default_prompt,
                           r.prompt_name, prompts, tok)
      [] r.kind = "Decode" -> decode_ids(r.ids, r.skip_special_tokens, tok)

(***************************************************************************)
(* The facade: encode, tokenize, decode.                                   *)
(***************************************************************************)
\* the call returns the Validation error of the emptiness check
Reject(r) ==
    /\ RequestEmpty(r)
    /\ rejected' = Some([req |-> r, ret |-> EmptyError(r)])
    /\ UNCHANGED <<cfg_vars, handle, queue, calls, worker_vars, admitted, served>>

\* the channel error handed back to the caller as a Validation error
expect_err_returned(call) ==
    [call EXCEPT !.pc = "returned",
                 !.ret = Some(Validation([kind |-> "ChannelClosed"]))]

\* Result::expect on an Err: the call panics, nothing is returned
expect_err(call) == [call EXCEPT !.pc = "panicked"]

\* a call record: the request, the caller's place in the call, who holds the
\* reply sender, the reply channel's value, what the call returned, and the
\* history of the call: whether its send suspended, and how many times it was
\* dequeued, computed and written to its reply channel
NewCall(r, pc, tx) ==
    [req |-> r, pc |-> pc, tx |-> tx, reply |-> None, ret |-> None,
     waited |-> (pc = "sending"), ndeq |-> 0, ncomp |-> 0, nsent |-> 0]

\* the call creates its reply channel and the send completes at once
SubmitQueued(r, N) ==
    /\ ~RequestEmpty(r)
    /\ MaySubmit(r, N)
    /\ ~ReceiversGone
    /\ Len(queue) < Capacity
    /\ calls' = Append(calls, NewCall(r, "awaiting", "queued"))
    /\ queue' = Append(queue, [req |-> r, id |-> Len(calls) + 1])
    /\ admitted' = Append(admitted, Len(calls) + 1)
    /\ rejected' = None
    /\ UNCHANGED <<cfg_vars, handle, worker_vars, served>>

\* the call creates its reply channel and the send suspends on the full queue
SubmitSuspended(r, N) ==
    /\ ~RequestEmpty(r)
    /\ MaySubmit(r, N)
    /\ ~ReceiversGone
    /\ Len(queue) >= Capacity
    /\ calls' = Append(calls, NewCall(r, "sending", "caller"))
    /\ rejected' = None
    /\ UNCHANGED <<cfg_vars, handle, queue, worker_vars, admitted, served>>

\* the call creates its reply channel and the send fails: expect() panics
SubmitClosed(r, N) ==
    /\ ~RequestEmpty(r)
    /\ MaySubmit(r, N)
    /\ ReceiversGone
    /\ calls' = Append(calls, expect_err(NewCall(r, "closed", "dropped")))
    /\ rejected' = None
    /\ UNCHANGED <<cfg_vars, handle, queue, worker_vars, admitted, served>>

Submit(r, N) == SubmitQueued(r, N) \/ SubmitSuspended(r, N) \/ SubmitClosed(r, N)

encode(R, N) ==
    /\ handle
    /\ \E r \in {x \in R : x.kind = "Encode"} : Reject(r) \/ Submit(r, N)

tokenize(R, N) ==
    /\ handle
    /\ \E r \in {x \in R : x.kind = "Tokenize"} : Reject(r) \/ Submit(r, N)

decode(R, N) ==
    /\ handle
    /\ \E r \in {x \in R : x.kind = "Decode"} : Reject(r) \/ Submit(r, N)

\* a suspended sender.send(..).await completes: the envelope enters the queue
SendOk(c) ==
    /\ calls[c].pc = "sending"
    /\ ~ReceiversGone
    /\ Len(queue) < Capacity
    /\ queue' = Append(queue, [req |-> calls[c].req, id |-> c])
    /\ calls' = [calls EXCEPT ![c].pc = "awaiting", ![c].tx = "queued"]
    /\ admitted' = Append(admitted, c)
    /\ rejected' = None
    /\ UNCHANGED <<cfg_vars, handle, worker_vars, served>>

\* a suspended sender.send(..).await fails: expect() panics
SendClosed(c) ==
    /\ calls[c].pc = "sending"
    /\ ReceiversGone
    /\ calls' = [calls EXCEPT ![c] = expect_err([calls[c] EXCEPT !.tx = "dropped"])]
    /\ rejected' = None
    /\ UNCHANGED <<cfg_vars, handle, queue, worker_vars, admitted, served>>

\* response_receiver.await yields the reply: the call returns it
AwaitOk(c) ==
    /\ calls[c].pc = "awaiting"
    /\ is_some(calls[c].reply)
    /\ calls' = [calls EXCEPT ![c].pc = "returned", ![c].ret = calls[c].reply]
    /\ rejected' = None
    /\ UNCHANGED <<cfg_vars, handle, queue, worker_vars, admitted, served>>

\* response_receiver.await fails, the sender is gone: expect() panics
AwaitDropped(c) ==
    /\ calls[c].pc = "awaiting"
    /\ ~is_some(calls[c].reply)
    /\ calls[c].tx = "dropped"
    /\ calls' = [calls EXCEPT ![c] = expect_err(calls[c])]
    /\ rejected' = None
    /\ UNCHANGED <<cfg_vars, handle, queue, worker_vars, admitted, served>>

\* the caller drops the future of its call at an await point
Cancel(c) ==
    /\ calls[c].pc \in {"sending", "awaiting"}
    /\ Cardinality({d \in CallIds : calls[d].pc = "cancelled"}) < MaxCancels
    /\ calls' = [calls EXCEPT ![c].pc = "cancelled",
                              ![c].tx = IF calls[c].pc = "sending"
                                        THEN "dropped" ELSE calls[c].tx]
    /\ rejected' = None
    /\ UNCHANGED <<cfg_vars, handle, queue, worker_vars, admitted, served>>

\* the last Tokenization is dropped; no call borrows it any more
DropHandle ==
    /\ handle
    /\ \A c \in CallIds : calls[c].pc \notin {"sending", "awaiting"}
    /\ handle' = FALSE
    /\ rejected' = None
    /\ UNCHANGED <<cfg_vars, queue, calls, worker_vars, admitted, served>>

(***************************************************************************)
(* tokenizer_worker.                                                       *)
(***************************************************************************)
\* a receiver that takes the youngest request
recv_index_youngest(q) == Len(q)

\* the place in the queue of the request recv_blocking() returns: the oldest
recv_index(q) == 1

\* the queue without the request at place i
Without(q, i) == SubSeq(q, 1, i - 1) \o SubSeq(q, i + 1, Len(q))

\* the worker takes envelope env out of the queue
Take(w, env) ==
    /\ cur' = [cur EXCEPT ![w] = Some(env)]
    /\ calls' = [calls EXCEPT ![env.id].ndeq = @ + 1, ![env.id].tx = "worker"]
    /\ served' = Append(served, env.id)

\* recv_blocking under a lock that a worker keeps while it handles a request
RecvExclusive(w) ==
    /\ wpc[w] = "recv"
    /\ queue /= <<>>
    /\ \A v \in Workers : wpc[v] \notin {"dequeued", "computing"}
    /\ Take(w, queue[recv_index(queue)])
    /\ queue' = Without(queue, recv_index(queue))
    /\ wpc' = [wpc EXCEPT ![w] = "dequeued"]
    /\ rejected' = None
    /\ UNCHANGED <<cfg_vars, handle, tokenizer, admitted>>

\* receiver.recv_blocking() returns the request at the head of the queue
Recv(w) ==
    /\ wpc[w] = "recv"
    /\ queue /= <<>>
    /\ Take(w, queue[recv_index(queue)])
    /\ queue' = Without(queue, recv_index(queue))
    /\ wpc' = [wpc EXCEPT ![w] = "dequeued"]
    /\ rejected' = None
    /\ UNCHANGED <<cfg_vars, handle, tokenizer, admitted>>

\* a worker that returns as soon as it finds the queue empty
ExitWhenEmpty(w) ==
    /\ wpc[w] = "recv"
    /\ queue = <<>>
    /\ wpc' = [wpc EXCEPT ![w] = "exited"]
    /\ rejected' = None
    /\ UNCHANGED <<cfg_vars, handle, queue, calls, cur, tokenizer,
                   admitted, served>>

\* receiver.recv_blocking() fails, queue empty and every Sender dropped: return
Exit(w) ==
    /\ wpc[w] = "recv"
    /\ queue = <<>>
    /\ ~handle
    /\ wpc' = [wpc EXCEPT ![w] = "exited"]
    /\ rejected' = None
    /\ UNCHANGED <<cfg_vars, handle, queue, calls, cur, tokenizer,
                   admitted, served>>

\* response_tx.is_closed(): nothing is computed, the envelope is dropped
Skip(w) ==
    /\ wpc[w] = "dequeued"
    /\ is_closed(response_tx(unwrap(cur[w])))
    /\ calls' = [calls EXCEPT ![response_tx(unwrap(cur[w]))].tx = "dropped"]
    /\ wpc' = [wpc EXCEPT ![w] = "recv"]
    /\ cur' = [cur EXCEPT ![w] = None]
    /\ rejected' = None
    /\ UNCHANGED <<cfg_vars, handle, queue, tokenizer, admitted, served>>

\* !response_tx.is_closed(): the worker starts the computation
Begin(w) ==
    /\ wpc[w] = "dequeued"
    /\ ~is_closed(response_tx(unwrap(cur[w])))
    /\ wpc' = [wpc EXCEPT ![w] = "computing"]
    /\ calls' = [calls EXCEPT ![response_tx(unwrap(cur[w]))].ncomp = @ + 1]
    /\ rejected' = None
    /\ UNCHANGED <<cfg_vars, handle, queue, cur, tokenizer, admitted, served>>

\* response_tx.send(h.ret).unwrap(): a closed channel makes the worker panic
DeliverUnwrap(w, c, h) ==
    /\ ~h.panic
    /\ tokenizer' = [tokenizer EXCEPT ![w] = h.tokenizer]
    /\ calls' = IF is_closed(c)
                THEN [calls EXCEPT ![c].tx = "dropped"]
                ELSE [calls EXCEPT ![c].tx = "sent", ![c].reply = Some(h.ret),
                                   ![c].nsent = @ + 1]
    /\ wpc' = [wpc EXCEPT ![w] = IF is_closed(c) THEN "dead" ELSE "recv"]

\* let _ = response_tx.send(h.ret) on channel c, by worker w whose computation
\* gave h: a closed channel makes send fail, and the failure is discarded
Deliver(w, c, h) ==
    /\ ~h.panic
    /\ tokenizer' = [tokenizer EXCEPT ![w] = h.tokenizer]
    /\ calls' = IF is_closed(c)
                THEN [calls EXCEPT ![c].tx = "dropped"]
                ELSE [calls EXCEPT ![c].tx = "sent", ![c].reply = Some(h.ret),
                                   ![c].nsent = @ + 1]
    /\ wpc' = [wpc EXCEPT ![w] = "recv"]

\* the computation ends and response_tx.send(..) delivers or discards the reply
Reply(w) ==
    /\ wpc[w] = "computing"
    /\ Deliver(w, response_tx(unwrap(cur[w])),
               Handle(unwrap(cur[w]).req, tokenizer[w]))
    /\ cur' = [cur EXCEPT ![w] = None]
    /\ rejected' = None
    /\ UNCHANGED <<cfg_vars, handle, queue, admitted, served>>

\* the computation panics: the thread starts to unwind, and the frame of the
\* closure that owns response_tx is the first to go: response_tx is dropped,
\* the Receiver of the queue, an argument of tokenizer_worker, is not yet
Crash(w) ==
    /\ wpc[w] = "computing"
    /\ calls' = [calls EXCEPT ![response_tx(unwrap(cur[w]))].tx = "dropped"]
    /\ wpc' = [wpc EXCEPT ![w] = "unwinding"]
    /\ cur' = [cur EXCEPT ![w] = None]
    /\ rejected' = None
    /\ UNCHANGED <<cfg_vars, handle, queue, tokenizer, admitted, served>>

\* the unwinding reaches the frame of tokenizer_worker: the Receiver is
\* dropped and the thread ends
Unwind(w) ==
    /\ wpc[w] = "unwinding"
    /\ wpc' = [wpc EXCEPT ![w] = "dead"]
    /\ rejected' = None
    /\ UNCHANGED <<cfg_vars, handle, queue, calls, cur, tokenizer,
                   admitted, served>>

(***************************************************************************)
(* Specifications.                                                         *)
(***************************************************************************)
\* the state Tokenization::new leaves, for one choice of its arguments: every
\* worker has a clone of the tokenizer tok
InitPool(n, max_len, offset, dflt, table, tok) ==
    /\ workers = n
    /\ max_input_length = max_len
    /\ position_offset = offset
    /\ default_prompt = dflt
    /\ prompts = table
    /\ handle = TRUE
    /\ queue = <<>>
    /\ calls = <<>>
    /\ rejected = None
    /\ wpc = [w \in 1..n |-> "recv"]
    /\ cur = [w \in 1..n |-> None]
    /\ tokenizer = [w \in 1..n |-> tok]
    /\ admitted = <<>>
    /\ served = <<>>
    /\ limited = None
    /\ projected = None

\* Tokenization::new with a tokenizer none of whose calls fails
InitWith(n, max_len, offset, dflt, table) ==
    InitPool(n, max_len, offset, dflt, table, NewTokenizer)

\* the tokenizers of the specifications: one whose calls succeed, and one
\* for each call that fails
Tokenizers ==
    {FailingTokenizer(f) : f \in {{}, {"with_truncation"}, {"encode"}, {"decode"}}}

\* the requests of the pool specification: one of each kind, and empty ones
PoolRequests ==
    { Filler,
      Tokenize(Dual(<<97>>, <<98>>), TRUE, None),
      Decode(<<4, 5>>, FALSE),
      Encode(Single(<<>>), FALSE, "Right", None),
      Encode(Dual(<<>>, <<>>), TRUE, "Left", Some("query")),
      Tokenize(Ids(<<>>), FALSE, None),
      Decode(<<>>, TRUE) }

\* the tokenizers of the pool specification: one whose calls succeed, and one
\* whose encode and decode fail, so that every request is answered with Err
PoolTokenizers == {NewTokenizer, FailingTokenizer({"encode", "decode"})}

\* the calls one behaviour of the pool specification submits
CallBound == IF workers = 1 THEN MaxCalls ELSE MaxCalls - 2

\* the pool specification: every interleaving of callers and workers
Init ==
    \E n \in 1..MaxWorkers, tok \in PoolTokenizers :
        InitPool(n, 3, Usize(1), None, Some([name \in {"query"} |-> <<98>>]), tok)

Next ==
    \/ encode(PoolRequests, CallBound)
    \/ tokenize(PoolRequests, CallBound)
    \/ decode(PoolRequests, CallBound)
    \/ \E c \in CallIds : SendOk(c)
    \/ \E c \in CallIds : SendClosed(c)
    \/ \E c \in CallIds : AwaitOk(c)
    \/ \E c \in CallIds : AwaitDropped(c)
    \/ \E c \in CallIds : Cancel(c)
    \/ DropHandle
    \/ \E w \in Workers : Recv(w)
    \/ \E w \in Workers : Exit(w)
    \/ \E w \in Workers : Skip(w)
    \/ \E w \in Workers : Begin(w)
    \/ \E w \in Workers : Reply(w)
    \/ \E w \in Workers : Crash(w)
    \/ \E w \in Workers : Unwind(w)

Spec == Init /\ [][Next]_vars

(***************************************************************************)
(* The fair specification: no tokenizer call panics, every tokenizer call  *)
(* ends, worker threads and polled futures are scheduled fairly.           *)
(***************************************************************************)
FairRequests == {Filler, Decode(<<4, 5>>, FALSE)}

FairNext ==
    \/ encode(FairRequests, CallBound)
    \/ decode(FairRequests, CallBound)
    \/ \E c \in CallIds : SendOk(c)
    \/ \E c \in CallIds : AwaitOk(c)
    \/ \E c \in CallIds : Cancel(c)
    \/ DropHandle
    \/ \E w \in Workers : Recv(w)
    \/ \E w \in Workers : Exit(w)
    \/ \E w \in Workers : Skip(w)
    \/ \E w \in Workers : Begin(w)
    \/ \E w \in Workers : Reply(w)

\* a worker thread that can take a step of its loop takes it
WorkerFairness ==
    \A w \in 1..MaxWorkers :
        WF_vars(w \in Workers /\ (Recv(w) \/ Skip(w) \/ Begin(w) \/ Reply(w)))

\* a future that was woken and not dropped is polled
CallerFairness ==
    \A c \in 1..MaxCalls :
        WF_vars(c \in CallIds /\ (SendOk(c) \/ AwaitOk(c)))

FairSpec == Init /\ [][FairNext]_vars /\ WorkerFairness /\ CallerFairness

(***************************************************************************)
(* The validation specification: one call at a time is carried from the    *)
(* facade through a worker and back, over inputs around the character      *)
(* limit, with and without multi-byte characters.                          *)
(***************************************************************************)
\* the characters of the strings: "a", "e" with acute accent, a CJK character
Units == { <<97>>, <<195, 169>>, <<232, 191, 153>> }

\* strings of n characters: n times one character, or n - 1 times one after
\* "a" or before "b"
StringsOf(n) ==
    {Rep(u, n) : u \in Units}
        \cup (IF n > 0
              THEN {<<97>> \o Rep(u, n - 1) : u \in Units}
                       \cup {Rep(u, n - 1) \o <<98>> : u \in Units}
              ELSE {})

\* inputs whose character count is around the limit
InputsAround(limit) ==
    {Single(s) : s \in UNION {StringsOf(limit + k) : k \in 0..MaxOver}}
        \cup {Dual(Rep(u, (limit \div 2) + j), Rep(v, (limit \div 2) + k)) :
                 u \in Units, v \in Units, j \in 0..MaxOver, k \in 0..MaxOver}
        \cup {Ids(Rep(<<4>>, limit + k)) : k \in 0..MaxOver}

\* short inputs, of a few tokens
ShortInputs ==
    { Single(<<97>>), Single(<<232, 191, 153>>), Dual(<<97>>, <<98>>),
      Ids(<<4>>) }

\* the non-empty ones: the validation specification submits every call
GuardInputs(limit) ==
    {i \in InputsAround(limit) \cup ShortInputs : ~is_empty(i)}

PromptNames == {None, Some("query"), Some("blank"), Some("other")}

GuardRequests ==
    {Encode(i, FALSE, "Right", pn) :
        i \in GuardInputs(char_limit(max_input_length)), pn \in PromptNames}
        \cup {Encode(i, TRUE, d, pn) :
                 i \in GuardInputs(char_limit(max_input_length)),
                 d \in {"Left", "Right"}, pn \in PromptNames}
        \cup {Tokenize(i, a, pn) :
                 i \in GuardInputs(char_limit(max_input_length)),
                 a \in BOOLEAN, pn \in PromptNames}
        \cup {Decode(<<0, 4, 7, 2>>, s) : s \in BOOLEAN}

GuardInit ==
    \E max_len \in {0, MaxInputLength}, dflt \in {None, Some(<<98>>), Some(<<>>)},
       table \in {None, Some([name \in {"query", "blank"} |->
                                 IF name = "query" THEN <<195, 169>> ELSE <<>>])},
       tok \in Tokenizers :
        InitPool(1, max_len, Usize(1), dflt, table, tok)

GuardNext ==
    \/ calls = <<>> /\ encode(GuardRequests, 1)
    \/ calls = <<>> /\ tokenize(GuardRequests, 1)
    \/ calls = <<>> /\ decode(GuardRequests, 1)
    \/ \E w \in Workers : Recv(w)
    \/ \E w \in Workers : Begin(w)
    \/ \E w \in Workers : Reply(w)
    \/ \E c \in CallIds : AwaitOk(c)

GuardSpec == GuardInit /\ [][GuardNext]_vars

(***************************************************************************)
(* The position specification: one encode call through a pool configured   *)
(* with a position offset that is small, or near 2^31, or near 2^32.        *)
(***************************************************************************)
\* 0.., 2^31, 2^32 - MaxNear .. 2^32 - 1, 2^32 and 2^32 + 1
Offsets ==
    {Usize(k) : k \in 0..MaxNear}
        \cup {[hi |-> Limb \div 2, lo |-> 0]}
        \cup {[hi |-> Limb - 1, lo |-> Limb - k] : k \in 1..MaxNear}
        \cup {[hi |-> Limb, lo |-> k] : k \in 0..1}

OffsetRequests ==
    {Encode(i, t, "Right", None) : i \in ShortInputs, t \in BOOLEAN}

OffsetInit ==
    \E offset \in Offsets : InitWith(1, MaxInputLength, offset, None, None)

OffsetNext ==
    \/ calls = <<>> /\ encode(OffsetRequests, 1)
    \/ \E w \in Workers : Recv(w)
    \/ \E w \in Workers : Begin(w)
    \/ \E w \in Workers : Reply(w)
    \/ \E c \in CallIds : AwaitOk(c)

OffsetSpec == OffsetInit /\ [][OffsetNext]_vars

(***************************************************************************)
(* The history specification: calls made one after the other, each served  *)
(* by any worker of the pool, so that a worker's tokenizer comes to a       *)
(* request in the state every sequence of earlier requests leaves.          *)
(***************************************************************************)
HistoryRequests ==
    { Encode(Single(<<97, 98>>), TRUE, "Right", None),
      Encode(Single(<<97, 98>>), TRUE, "Left", None),
      Encode(Single(<<97, 98>>), FALSE, "Right", None),
      Encode(Ids(<<4, 5, 4>>), TRUE, "Left", Some("query")),
      Tokenize(Single(<<97, 98, 97>>), TRUE, None),
      Tokenize(Dual(<<97, 98>>, <<98, 97>>), TRUE, None),
      Tokenize(Ids(<<4, 5, 4, 5>>), FALSE, None),
      Decode(<<4, 5>>, FALSE) }

\* every call made so far has returned
AllReturned == \A c \in 1..Len(calls) : calls[c].pc = "returned"

HistoryInit ==
    \E n \in 1..MaxWorkers, tok \in Tokenizers :
        InitPool(n, MaxInputLength, Usize(1), None,
                 Some([name \in {"query"} |-> <<98>>]), tok)

HistoryNext ==
    \/ AllReturned /\ encode(HistoryRequests, MaxVaried)
    \/ AllReturned /\ tokenize(HistoryRequests, MaxVaried)
    \/ AllReturned /\ decode(HistoryRequests, MaxVaried)
    \/ \E w \in Workers : Recv(w)
    \/ \E w \in Workers : Begin(w)
    \/ \E w \in Workers : Reply(w)
    \/ \E c \in CallIds : AwaitOk(c)

HistorySpec == HistoryInit /\ [][HistoryNext]_vars

(***************************************************************************)
(* The projection specification: into_tokens applied to encodings of one   *)
(* position with every small pair of offsets, and to the encodings the      *)
(* tokenizer gives of the input.                                            *)
(***************************************************************************)
ProjectionInputs == { <<97, 232, 191, 153>>, <<195, 169, 98>>, <<>> }

ProjectionEncodings ==
    {<<[id |-> id, type_id |-> 0, special |-> special, start |-> start,
        stop |-> stop]>> :
        id \in {BOS, 4, 6}, special \in {0, 1},
        start \in 0..MaxOffset, stop \in 0..MaxOffset}
        \cup {tokenizer_encode(NewTokenizer, TextInput(i), TRUE) :
                 i \in ProjectionInputs}
        \cup {<<>>}

\* into_tokens(encoding, input), once
IntoTokens ==
    /\ projected = None
    /\ \E encoding \in ProjectionEncodings, input \in ProjectionInputs,
          overflow_checks \in BOOLEAN :
           projected' = Some([encoding |-> encoding, input |-> input,
                              overflow_checks |-> overflow_checks,
                              out |-> into_tokens(encoding, input, overflow_checks)])
    /\ UNCHANGED <<workers, max_input_length, position_offset, default_prompt,
                   prompts, handle, queue, calls, rejected, worker_vars,
                   admitted, served, limited>>

ProjectionInit == InitWith(1, 1, Usize(0), None, None)

ProjectionNext == IntoTokens

ProjectionSpec == ProjectionInit /\ [][ProjectionNext]_vars

(***************************************************************************)
(* The truncation specification: EncodingInput::apply_limit applied to     *)
(* every short string and pair of strings, under every small limit.        *)
(***************************************************************************)
\* "a", "e" with acute accent, a CJK character, an emoji: 1 to 4 bytes
Chars == { <<97>>, <<195, 169>>, <<232, 191, 153>>, <<240, 159, 152, 128>> }

\* the strings of n characters
RECURSIVE StringsOfLength(_)
StringsOfLength(n) ==
    IF n = 0 THEN {<<>>}
    ELSE {s \o ch : s \in StringsOfLength(n - 1), ch \in Chars}

\* the strings of at most n characters
StringsUpTo(n) == UNION {StringsOfLength(k) : k \in 0..n}

LimitInputs ==
    {Single(s) : s \in StringsUpTo(MaxChars)}
        \cup {Dual(s1, s2) : s1 \in StringsUpTo(MaxPairChars),
                             s2 \in StringsUpTo(MaxPairChars)}
        \cup {Ids(Rep(<<4>>, n)) : n \in 0..MaxChars}

\* inputs.apply_limit(limit), once
ApplyLimit ==
    /\ limited = None
    /\ \E inputs \in LimitInputs, limit \in 0..MaxLimit :
           limited' = Some([inputs |-> inputs, limit |-> limit,
                            out |-> apply_limit(inputs, limit)])
    /\ UNCHANGED <<workers, max_input_length, position_offset, default_prompt,
                   prompts, handle, queue, calls, rejected, worker_vars,
                   admitted, served, projected>>

LimitInit == InitWith(1, 1, Usize(0), None, None)

LimitNext == ApplyLimit

LimitSpec == LimitInit /\ [][LimitNext]_vars

(***************************************************************************)
(* Properties of the pool.                                                 *)
(***************************************************************************)
\* x occurs in the sequence s
InSeq(x, s) == \E i \in 1..Len(s) : s[i] = x

\* the number of places of s that hold x
Occurrences(x, s) == Cardinality({i \in 1..Len(s) : s[i] = x})

\* the input of request r has no string byte and no id
NoInput(r) ==
    IF r.kind = "Decode" THEN Len(r.ids) = 0
    ELSE CASE r.inputs.tag = "Single" -> Len(r.inputs.s) = 0
           [] r.inputs.tag = "Dual" -> Len(r.inputs.s1) + Len(r.inputs.s2) = 0
           [] r.inputs.tag = "Ids" -> Len(r.inputs.ids) = 0

\* no request without input is in a call record, in the queue or with a worker,
\* and the facade can reject one whatever the queue and the workers are
NoInputKeptOut ==
    /\ \A c \in CallIds : ~NoInput(calls[c].req)
    /\ \A i \in 1..Len(queue) : ~NoInput(queue[i].req)
    /\ \A w \in Workers : is_some(cur[w]) => ~NoInput(unwrap(cur[w]).req)
    /\ handle => \A r \in PoolRequests : NoInput(r) => ENABLED Reject(r)

\* a step that rejects a call returns the Validation error of the emptiness
\* check for a request without input, and changes nothing else
RejectStep ==
    is_some(rejected') =>
        /\ NoInput(unwrap(rejected').req)
        /\ unwrap(rejected').ret = EmptyError(unwrap(rejected').req)
        /\ ~unwrap(rejected').ret.ok
        /\ UNCHANGED <<queue, calls, wpc, cur, tokenizer, admitted, served>>

\* a call of the facade with a request without input can only be rejected
NoInputStep ==
    \A r \in PoolRequests : NoInput(r) => ~Submit(r, CallBound)

\* C1: a call of encode, tokenize or decode whose input is empty returns a
\* Validation error at once and enqueues nothing: the queue and the workers
\* are unchanged, no worker ever holds the request, and the error is returned
\* also when the queue is full or no worker is live.
C1_EmptyInputRejected ==
    []NoInputKeptOut /\ [][RejectStep /\ NoInputStep]_vars

\* an empty call was rejected while the queue was full and no worker was live
C1_Witness ==
    /\ is_some(rejected)
    /\ Len(queue) = workers * 4
    /\ \A w \in Workers : wpc[w] = "dead"

\* the tokenizer Tokenization::new was given, of which each worker has a clone
PoolTokenizer == FailingTokenizer(tokenizer[1].fails)

\* the reply of the request of call c, computed from its own inputs
OwnResult(c) == Handle(calls[c].req, PoolTokenizer).ret

\* the places that hold the envelope of call c: the queue and the workers
Holders(c) ==
    Occurrences(c, [i \in 1..Len(queue) |-> queue[i].id])
        + Cardinality({w \in Workers : is_some(cur[w]) /\ unwrap(cur[w]).id = c})

\* C2: in every interleaving each enqueued envelope is dequeued at most once,
\* by one worker; at most one value is written to its reply channel, and that
\* value is the result computed from the inputs of the same request, so a
\* caller never receives the result of another call.
C2_RequestReplyPairing ==
    /\ \A c \in CallIds :
          /\ calls[c].ndeq <= 1
          /\ Occurrences(c, served) = calls[c].ndeq
          /\ calls[c].nsent <= 1
          /\ Holders(c) <= 1 - calls[c].nsent
          /\ is_some(calls[c].reply) =>
                 calls[c].nsent = 1 /\ unwrap(calls[c].reply) = OwnResult(c)
          /\ calls[c].pc = "returned" => calls[c].ret = Some(OwnResult(c))
    /\ \A i \in 1..Len(queue) : queue[i].req = calls[queue[i].id].req
    /\ \A w \in Workers :
          is_some(cur[w]) => unwrap(cur[w]).req = calls[unwrap(cur[w]).id].req

\* two workers served calls of different kinds and each caller got its own
C2_Witness ==
    /\ workers = 2
    /\ \E c, d \in CallIds :
          /\ calls[c].req.kind = "Tokenize" /\ calls[d].req.kind = "Decode"
          /\ calls[c].pc = "returned" /\ calls[d].pc = "returned"
          /\ calls[c].ret = Some(OwnResult(c)) /\ calls[d].ret = Some(OwnResult(d))
          /\ OwnResult(c) /= OwnResult(d)

\* the queue holds at most workers * 4 envelopes, exactly those of the calls
\* whose reply sender is queued, and a caller suspended in send has no result
QueueBounded ==
    /\ Len(queue) <= workers * 4
    /\ \A c \in CallIds :
          /\ Occurrences(c, [i \in 1..Len(queue) |-> queue[i].id])
                 = (IF calls[c].tx = "queued" THEN 1 ELSE 0)
          /\ calls[c].pc = "sending" => calls[c].ret = None /\ calls[c].waited

\* a submission on a full queue suspends; a suspended caller leaves its send
\* by being admitted to a free slot, unless its future is dropped or every
\* worker has terminated (the closed queue of C7)
SuspendStep ==
    \A c \in 1..Len(calls') :
        /\ (c > Len(calls) /\ Len(queue) = workers * 4 /\ ~ReceiversGone) =>
               /\ calls'[c].pc = "sending"
               /\ calls'[c].ret = None
               /\ queue' = queue
        /\ (c <= Len(calls) /\ calls[c].pc = "sending"
                /\ calls'[c].pc /= "sending") =>
               \/ /\ calls'[c].pc = "awaiting"
                  /\ Len(queue) < workers * 4
                  /\ queue' = Append(queue, [req |-> calls[c].req, id |-> c])
               \/ calls'[c].pc = "cancelled"
               \/ calls'[c].pc = "panicked" /\ ReceiversGone

\* C3: in every reachable state the queue holds at most workers * 4 requests;
\* a submission made while it holds workers * 4 suspends the caller until a
\* slot frees, and is neither rejected with an error nor dropped.
C3_Backpressure ==
    []QueueBounded /\ [][SuspendStep]_vars

\* a caller that was suspended on the full queue got its reply
C3_Witness ==
    \E c \in CallIds :
        calls[c].waited /\ calls[c].pc = "returned" /\ calls[c].ndeq = 1

\* C5: requests are dequeued in the order they were admitted to the queue,
\* whatever their kind: the dequeue history is a prefix of the admission
\* history.  The order of completion is not constrained.
C5_FifoService ==
    /\ Len(served) <= Len(admitted)
    /\ served = SubSeq(admitted, 1, Len(served))

\* of two calls of different kinds the later admitted completed first
C5_Witness ==
    \E a, b \in 1..Len(served) :
        /\ a < b
        /\ calls[served[a]].req.kind /= calls[served[b]].req.kind
        /\ calls[served[b]].pc = "returned"
        /\ calls[served[a]].pc = "awaiting"
        /\ calls[served[a]].nsent = 0

\* a call that returned returned the one value a worker wrote to its reply
\* channel, and a call that panicked returned nothing
OnlyRepliesReturned ==
    \A c \in CallIds :
        /\ calls[c].pc = "returned" =>
               calls[c].nsent = 1 /\ calls[c].ret = calls[c].reply
        /\ calls[c].pc = "panicked" => calls[c].ret = None

\* a call that meets the closed queue, or whose reply sender is dropped
\* without a value while it awaits, ends in a panic (or is dropped itself)
ViolationStep ==
    \A c \in 1..Len(calls') :
        /\ (c > Len(calls) /\ ReceiversGone) => calls'[c].pc = "panicked"
        /\ (c <= Len(calls) /\ calls'[c] /= calls[c]
                /\ \/ calls[c].pc = "sending" /\ ReceiversGone
                   \/ /\ calls[c].pc = "awaiting"
                      /\ calls[c].tx = "dropped"
                      /\ calls[c].reply = None) =>
               /\ calls'[c].pc \in {"panicked", "cancelled"}
               /\ calls'[c].ret = None

\* C7: when the queue is closed as encode, tokenize or decode enqueues, or
\* the reply sender of an outstanding request is dropped without a value, the
\* call panics and never returns an Err value to its caller.
C7_ProtocolViolationsPanic ==
    []OnlyRepliesReturned /\ [][ViolationStep]_vars

\* one call panicked awaiting its reply and a later one at the closed queue
C7_Witness ==
    \E c, d \in CallIds :
        /\ calls[c].pc = "panicked" /\ calls[c].ndeq = 1
        /\ calls[d].pc = "panicked" /\ ~InSeq(d, admitted) /\ ~calls[d].waited

(***************************************************************************)
(* Properties of the pool under fair scheduling.                           *)
(***************************************************************************)
\* call c is settled: it was admitted to the queue, dequeued, and its caller
\* has the reply computed from its request, unless the caller dropped the
\* future; an admitted request is dequeued also when its caller is gone.
\* A settled call stays settled: the histories grow, the places are final
Settled(c) ==
    /\ InSeq(c, admitted) \/ (calls[c].pc = "cancelled" /\ calls[c].waited)
    /\ InSeq(c, admitted) => InSeq(c, served)
    /\ \/ calls[c].pc = "cancelled"
       \/ calls[c].pc = "returned" /\ calls[c].ret = Some(OwnResult(c))

\* C4: with at least one worker, fair scheduling and tokenizer calls that
\* end, every non-empty submission, also one suspended on the full queue, is
\* eventually admitted to the queue (unless its future is dropped first),
\* every admitted request is eventually dequeued, and a caller that keeps
\* its reply receiver eventually obtains the reply.  Stated with Settled:
\* again and again every call made so far is settled, so each call is
\* eventually settled for good.
C4_Liveness == []<>(\A c \in CallIds : Settled(c))

\* a caller suspended on the full queue was admitted, served and answered
\* after the only worker had skipped a request whose caller was gone
C4_Witness ==
    /\ workers = 1
    /\ \E c, d \in CallIds :
          /\ calls[c].waited /\ calls[c].pc = "returned"
          /\ InSeq(c, admitted) /\ InSeq(c, served)
          /\ calls[d].pc = "cancelled" /\ calls[d].ndeq = 1 /\ calls[d].ncomp = 0

\* the workers that hold their Receiver
LiveWorkers == {w \in Workers : Live(w)}

\* a worker that ends the handling of a request whose caller dropped the
\* reply receiver is back at recv_blocking, the reply is discarded and the
\* same workers are live
DiscardStep ==
    \A w \in Workers :
        (/\ is_some(cur[w])
         /\ calls[unwrap(cur[w]).id].pc = "cancelled"
         /\ cur'[w] /= cur[w]) =>
            /\ wpc'[w] = "recv"
            /\ cur'[w] = None
            /\ calls'[unwrap(cur[w]).id].reply = None
            /\ calls'[unwrap(cur[w]).id].tx = "dropped"
            /\ LiveWorkers' = LiveWorkers

\* once a worker has discarded a request whose caller was gone, the requests
\* in the queue are still dequeued and handled: the pool gets idle
ServedAfterDiscard ==
    (\E c \in CallIds : /\ calls[c].pc = "cancelled"
                        /\ calls[c].tx = "dropped"
                        /\ calls[c].ndeq = 1)
        ~> (queue = <<>> /\ \A w \in Workers : cur[w] = None)

\* C6: when a caller drops its reply receiver after submission (the request
\* queued, just dequeued, or being tokenized), the worker that handles the
\* request neither fails nor terminates: it discards the reply and serves the
\* next request, and the number of live workers is unchanged.
C6_CancellationSafety ==
    /\ [](handle => LiveWorkers = Workers)
    /\ [](\A w \in Workers : wpc[w] /= "dead")
    /\ [][DiscardStep]_vars
    /\ ServedAfterDiscard

\* the only worker computed a reply its caller no longer wanted, discarded
\* it, and then served and answered the next request
C6_Witness ==
    /\ workers = 1
    /\ \E a, b \in 1..Len(served) :
          /\ a < b
          /\ calls[served[a]].pc = "cancelled"
          /\ calls[served[a]].ncomp = 1
          /\ calls[served[a]].nsent = 0
          /\ calls[served[a]].tx = "dropped"
          /\ calls[served[b]].pc = "returned"

(***************************************************************************)
(* Properties of the validation.                                           *)
(***************************************************************************)
\* the characters of s: its bytes that are not UTF-8 continuation bytes
CharsOf(s) == Cardinality({i \in 1..Len(s) : s[i] \notin 128..191})

\* the character count of an input: both strings of a Dual, one per id
InputChars(inputs) ==
    CASE inputs.tag = "Single" -> CharsOf(inputs.s)
      [] inputs.tag = "Dual" -> CharsOf(inputs.s1) + CharsOf(inputs.s2)
      [] inputs.tag = "Ids" -> Len(inputs.ids)

\* the character limit of the pool
Limit == max_input_length * 250

\* the prompt name of request r is absent or names an entry of the table
PromptResolves(r) ==
    \/ r.prompt_name = None
    \/ is_some(prompts) /\ unwrap(r.prompt_name) \in DOMAIN unwrap(prompts)

\* call c is an encode without truncation, of an input over the limit, that
\* has returned
OverLimitReturned(c) ==
    /\ calls[c].pc = "returned"
    /\ calls[c].req.kind = "Encode"
    /\ ~calls[c].req.truncate
    /\ InputChars(calls[c].req.inputs) > Limit

\* call c returned CharacterLimitExceeded with the limit and the count
CharLimitReturned(c) ==
    calls[c].ret = Some(Validation([kind |-> "CharLimit", limit |-> Limit,
                                    given |-> InputChars(calls[c].req.inputs)]))

\* call c returned the error of a prompt name that does not resolve
UnknownPromptReturned(c) ==
    /\ ~unwrap(calls[c].ret).ok
    /\ unwrap(calls[c].ret).err.kind \in {"NoPrompts", "PromptNotFound"}
    /\ unwrap(calls[c].ret).err.name = unwrap(calls[c].req.prompt_name)

\* C8 as stated: for every input whose character count exceeds
\* max_input_length * 250, encode without truncation fails with
\* CharacterLimitExceeded and the exact limit and count, whatever the prompt
\* name and the default prompt are.
C8_AsStated ==
    \A c \in CallIds : OverLimitReturned(c) => CharLimitReturned(c)

\* C8: for every input whose character count exceeds max_input_length * 250,
\* encode without truncation fails with CharacterLimitExceeded and the exact
\* limit and count, whatever the default prompt is, when the prompt name is
\* absent or names an entry of the prompt table; with a prompt name that does
\* not resolve it fails with the error of the prompt resolution instead.
C8_CharacterLimitExceeded ==
    \A c \in CallIds :
        OverLimitReturned(c) =>
            IF PromptResolves(calls[c].req)
            THEN CharLimitReturned(c)
            ELSE UnknownPromptReturned(c)

\* an encode of a pair of multi-byte strings over the limit, with a prompt
\* name of the table and a default prompt, returned CharacterLimitExceeded
C8_Witness ==
    \E c \in CallIds :
        /\ OverLimitReturned(c)
        /\ CharLimitReturned(c)
        /\ calls[c].req.inputs.tag = "Dual"
        /\ Len(calls[c].req.inputs.s1) > CharsOf(calls[c].req.inputs.s1)
        /\ is_some(calls[c].req.prompt_name)
        /\ is_some(default_prompt)
        /\ max_input_length > 0

\* the pre-prompt of request r, "" without one
ResolvedPrompt(r) ==
    IF is_some(r.prompt_name) THEN unwrap(prompts)[unwrap(r.prompt_name)]
    ELSE IF is_some(default_prompt) THEN unwrap(default_prompt)
    ELSE <<>>

\* worker w has answered call c, an encode with truncation of strings over
\* the limit, after handing text to its tokenizer
TruncatedEncode(c, w) ==
    /\ calls[c].nsent = 1
    /\ calls[c].req.kind = "Encode"
    /\ calls[c].req.truncate
    /\ calls[c].req.inputs.tag \in {"Single", "Dual"}
    /\ InputChars(calls[c].req.inputs) > Limit
    /\ is_some(tokenizer[w].last)

\* the text the tokenizer was handed holds its share of the limit: a pair at
\* most limit / 2 characters each, a string at most limit after the prompt
WithinShare(r, fed) ==
    IF fed.pair
    THEN CharsOf(fed.a) <= Limit \div 2 /\ CharsOf(fed.b) <= Limit \div 2
    ELSE CharsOf(fed.a) - CharsOf(ResolvedPrompt(r)) <= Limit

\* C9: when encode is called with truncation permitted and the character
\* count of the input exceeds limit = max_input_length * 250, the text handed
\* to the tokenizer is truncated to its share: a Single string holds at most
\* limit characters, each string of a Dual at most limit / 2, multi-byte
\* strings included.
C9_TruncatedToShare ==
    \A c \in CallIds, w \in Workers :
        TruncatedEncode(c, w) =>
            WithinShare(calls[c].req, unwrap(tokenizer[w].last).input)

\* the bytes a UTF-8 character that starts with byte b holds, 0 for no start
Utf8Width(b) ==
    CASE b < 128 -> 1
      [] b \in 192..223 -> 2
      [] b \in 224..239 -> 3
      [] b \in 240..247 -> 4
      [] OTHER -> 0

\* t is valid text: every start byte is followed by its continuation bytes,
\* and every continuation byte belongs to a start byte
ValidText(t) ==
    /\ t /= <<>> => t[1] \notin 128..191
    /\ \A i \in 1..Len(t) :
          t[i] \notin 128..191 =>
              /\ Utf8Width(t[i]) > 0
              /\ i + Utf8Width(t[i]) - 1 <= Len(t)
              /\ \A j \in (i + 1)..(i + Utf8Width(t[i]) - 1) : t[j] \in 128..191
              /\ i + Utf8Width(t[i]) <= Len(t) =>
                     t[i + Utf8Width(t[i])] \notin 128..191

\* t is a prefix of s that ends where a character of s ends, and valid text
CutAtBoundary(t, s) ==
    /\ Len(t) <= Len(s)
    /\ t = SubSeq(s, 1, Len(t))
    /\ Len(t) < Len(s) => s[Len(t) + 1] \notin 128..191
    /\ ValidText(t)

\* apply_limit left input `out` of input `inputs`: every string cut at a
\* character boundary, ids untouched
LimitedAtBoundary(inputs, out) ==
    /\ out.tag = inputs.tag
    /\ CASE inputs.tag = "Single" -> CutAtBoundary(out.s, inputs.s)
         [] inputs.tag = "Dual" -> /\ CutAtBoundary(out.s1, inputs.s1)
                                   /\ CutAtBoundary(out.s2, inputs.s2)
         [] inputs.tag = "Ids" -> out = inputs

\* C10: for every string and every limit the truncation of the character
\* limit never cuts inside a multi-byte character and never fails: what it
\* leaves is a prefix of the original that ends on a character boundary, and
\* valid text.
C10_TruncationAtBoundary ==
    is_some(limited) =>
        /\ ~unwrap(limited).out.panic
        /\ LimitedAtBoundary(unwrap(limited).inputs, unwrap(limited).out.inputs)

\* a string was cut between two multi-byte characters
C10_Witness ==
    /\ is_some(limited)
    /\ unwrap(limited).inputs.tag = "Single"
    /\ unwrap(limited).limit > 0
    /\ Len(unwrap(limited).out.inputs.s) = unwrap(limited).limit
    /\ Len(unwrap(limited).inputs.s) > unwrap(limited).limit
    /\ unwrap(limited).inputs.s[unwrap(limited).limit] \in 128..191
    /\ unwrap(limited).inputs.s[unwrap(limited).limit + 1] >= 192

(***************************************************************************)
(* Properties of the replies.                                              *)
(***************************************************************************)
\* the truncation an encode request asks the tokenizer for
RequestTruncation(r) ==
    IF r.kind = "Encode" /\ r.truncate
    THEN Some([direction |-> r.truncation_direction,
               max_length |-> max_input_length,
               strategy |-> "LongestFirst", stride |-> 0])
    ELSE None

\* what the tokenization of an encode or tokenize request r gives, before
\* any token limit: an error, or the resolved text and the encoding
Tokenized(r) ==
    tokenize_input(r.inputs,
                   IF r.kind = "Encode" THEN TRUE ELSE r.add_special_tokens,
                   max_input_length, RequestTruncation(r),
                   IF is_some(r.prompt_name) THEN None ELSE default_prompt,
                   r.prompt_name, prompts, PoolTokenizer).ret

\* the token count of the encoding of request r
TokenCount(r) == Len(Tokenized(r).v.encoding)

\* the reply of call c, which has returned
Returned(c) == unwrap(calls[c].ret)

\* the reply of call c is the error of the token limit
TokenLimitReturned(c) ==
    /\ ~Returned(c).ok
    /\ Returned(c).err.kind = "TokenLimit"

\* C11: encode returns a ValidEncoding only if the token count of the
\* tokenizer is at most max_input_length; when the count exceeds it, encode
\* fails with a Validation error that reports max_input_length and the
\* count, with and without truncation.  tokenize never returns this error.
C11_TokenLimit ==
    \A c \in CallIds :
        calls[c].pc = "returned" =>
            /\ (calls[c].req.kind = "Encode" /\ Tokenized(calls[c].req).ok) =>
                   IF TokenCount(calls[c].req) > max_input_length
                   THEN Returned(c) =
                            Validation([kind |-> "TokenLimit",
                                        limit |-> max_input_length,
                                        given |-> TokenCount(calls[c].req)])
                   ELSE Returned(c).ok
            /\ calls[c].req.kind = "Encode" =>
                   (TokenLimitReturned(c) => Tokenized(calls[c].req).ok)
            /\ calls[c].req.kind = "Tokenize" =>
                   /\ ~TokenLimitReturned(c)
                   /\ Returned(c) = Tokenized(calls[c].req)

\* an encode without truncation of a pair of six tokens failed on the limit
\* of three tokens
C11_Witness ==
    \E c \in CallIds :
        /\ calls[c].pc = "returned"
        /\ calls[c].req.kind = "Encode"
        /\ ~calls[c].req.truncate
        /\ calls[c].req.inputs.tag = "Dual"
        /\ max_input_length = 3
        /\ Returned(c) = Validation([kind |-> "TokenLimit", limit |-> 3,
                                     given |-> 6])

\* the reply of call c is a ValidEncoding
EncodingReturned(c) ==
    /\ calls[c].pc = "returned"
    /\ calls[c].req.kind = "Encode"
    /\ Returned(c).ok

\* the number position_offset + i, in base 2^16
OffsetPlus(i) ==
    [hi |-> position_offset.hi + (position_offset.lo + i) \div 65536,
     lo |-> (position_offset.lo + i) % 65536]

\* the three vectors of e have one length, and position i holds
\* position_offset + i
Positioned(e) ==
    /\ Len(e.token_type_ids) = Len(e.input_ids)
    /\ Len(e.position_ids) = Len(e.input_ids)
    /\ \A i \in 0..(Len(e.input_ids) - 1) :
           i < Len(e.position_ids) /\ e.position_ids[i + 1] = OffsetPlus(i)

\* C12: every ValidEncoding returned by encode has input_ids, token_type_ids
\* and position_ids of one length seq_len, and position_ids[i] is
\* position_offset + i for every i below seq_len, whatever position offset
\* the pool was configured with
C12_PositionIds ==
    \A c \in CallIds : EncodingReturned(c) => Positioned(Returned(c).v)

\* C12 for the offsets that leave position_offset + seq_len within a u32
C12_PositionIdsWithinU32 ==
    \A c \in CallIds :
        (EncodingReturned(c) /\ OffsetPlus(Len(Returned(c).v.input_ids)).hi < 65536)
            => Positioned(Returned(c).v)

\* a ValidEncoding of three tokens with position ids 1, 2, 3
C12_Witness ==
    \E c \in CallIds :
        /\ EncodingReturned(c)
        /\ Len(Returned(c).v.input_ids) = 3
        /\ Returned(c).v.position_ids =
               <<[hi |-> 0, lo |-> 1], [hi |-> 0, lo |-> 2], [hi |-> 0, lo |-> 3]>>

\* a ValidEncoding of three tokens and no position id, under the offset 2^32 - 1
C12_Overflow ==
    \E c \in CallIds :
        /\ EncodingReturned(c)
        /\ position_offset = [hi |-> 65535, lo |-> 65535]
        /\ Len(Returned(c).v.input_ids) = 3
        /\ Returned(c).v.position_ids = <<>>
(***************************************************************************)
(* Properties of the prompts.                                              *)
(***************************************************************************)
\* call c is an encode or a tokenize that has returned
PromptCallReturned(c) ==
    /\ calls[c].pc = "returned"
    /\ calls[c].req.kind \in {"Encode", "Tokenize"}

\* the prefix of request r: the table entry of its prompt name, or without a
\* name the default prompt, or nothing
Prefix(r) ==
    IF is_some(r.prompt_name) THEN Some(unwrap(prompts)[unwrap(r.prompt_name)])
    ELSE default_prompt

\* text s after the prefix p, or alone
After(p, s) == IF p = None THEN s ELSE unwrap(p) \o s

\* the tokenizer of worker w was handed the one text s
Fed(w, s) ==
    /\ tokenizer[w].last /= None
    /\ unwrap(tokenizer[w].last).input = [pair |-> FALSE, a |-> s]

\* call c returned the failure of a call of the tokenizer
TokenizerFailed(c) == ~Returned(c).ok /\ Returned(c).err.kind = "Tokenizer"

\* the tokenizer of worker w was handed the text s, unless the tokenizer
\* failed before any text was handed to it and call c returned that failure
FedUnlessFailed(c, w, s) ==
    \/ Fed(w, s)
    \/ TokenizerFailed(c) /\ tokenizer[w].last = None

\* C13: a request without a prompt name is tokenized under the default prompt
\* as it is (possibly none); a request with a prompt name is tokenized under
\* the table entry of that name, whatever the default prompt is, and fails
\* with the error of an unknown prompt, before anything is handed to the
\* tokenizer, if there is no table or the table lacks the name.  This is so
\* for encode and for tokenize alike.  (A tokenizer whose with_truncation
\* fails is handed no text: the call returns that failure.)
C13_PromptResolution ==
    \A c \in CallIds, w \in Workers :
        PromptCallReturned(c) =>
            IF PromptResolves(calls[c].req)
            THEN /\ Returned(c).ok \/ Returned(c).err.kind \notin {"NoPrompts", "PromptNotFound"}
                 /\ (calls[c].req.inputs.tag = "Single"
                        /\ InputChars(calls[c].req.inputs) <= Limit)
                       => FedUnlessFailed(c, w, After(Prefix(calls[c].req),
                                                     calls[c].req.inputs.s))
            ELSE /\ UnknownPromptReturned(c)
                 /\ tokenizer[w].last = None

\* an encode named "query" returned after its text went to the tokenizer under
\* the table entry, not under the default prompt of the pool
C13_Witness ==
    \E c \in CallIds, w \in Workers :
        /\ PromptCallReturned(c)
        /\ calls[c].req.kind = "Encode"
        /\ calls[c].req.prompt_name = Some("query")
        /\ calls[c].req.inputs = Single(<<97>>)
        /\ default_prompt = Some(<<98>>)
        /\ Fed(w, <<195, 169, 97>>)

\* a tokenize named "other" returned the error of an unknown prompt
C13_WitnessUnknown ==
    \E c \in CallIds :
        /\ PromptCallReturned(c)
        /\ calls[c].req.kind = "Tokenize"
        /\ calls[c].req.prompt_name = Some("other")
        /\ prompts /= None
        /\ UnknownPromptReturned(c)
\* call c, of a single text under a prompt that resolves, has returned after
\* its text went to the tokenizer: within the character limit, or truncated
SingleTokenized(c) ==
    /\ PromptCallReturned(c)
    /\ calls[c].req.inputs.tag = "Single"
    /\ PromptResolves(calls[c].req)
    /\ \/ InputChars(calls[c].req.inputs) <= Limit
       \/ calls[c].req.kind = "Encode" /\ calls[c].req.truncate

\* text t is prefix p, if any, followed by s, or by what the character limit
\* left of s when s is over the limit
Injected(t, p, s) ==
    /\ Len(t) >= Len(After(p, <<>>))
    /\ SubSeq(t, 1, Len(After(p, <<>>))) = After(p, <<>>)
    /\ IF CharsOf(s) <= Limit
       THEN t = After(p, s)
       ELSE CutAtBoundary(SubSeq(t, Len(After(p, <<>>)) + 1, Len(t)), s)

\* C14: for a Single input the text handed to the tokenizer is the resolved
\* prefix followed by the input text, the input text alone when no prefix
\* resolves, and a tokenize that succeeds returns that same text as its
\* resolved text; a call that does not hand its text over, or a tokenize that
\* does not succeed, returns the failure of the tokenizer
C14_PromptInjection ==
    \A c \in CallIds, w \in Workers :
        SingleTokenized(c) =>
            \/ TokenizerFailed(c) /\ tokenizer[w].last = None
            \/ /\ tokenizer[w].last /= None
               /\ ~unwrap(tokenizer[w].last).input.pair
               /\ Injected(unwrap(tokenizer[w].last).input.a,
                           Prefix(calls[c].req), calls[c].req.inputs.s)
               /\ calls[c].req.kind = "Tokenize" =>
                      IF Returned(c).ok
                      THEN Returned(c).v.text =
                               Some(unwrap(tokenizer[w].last).input.a)
                      ELSE TokenizerFailed(c)

\* tokenize of "a" named "query" returned the text of the table entry
\* followed by "a", which is what its tokenizer was handed
C14_Witness ==
    \E c \in CallIds, w \in Workers :
        /\ SingleTokenized(c)
        /\ calls[c].req.kind = "Tokenize"
        /\ calls[c].req.prompt_name = Some("query")
        /\ calls[c].req.inputs = Single(<<97>>)
        /\ Returned(c).ok
        /\ Returned(c).v.text = Some(<<195, 169, 97>>)
        /\ Fed(w, <<195, 169, 97>>)
\* call c, of a pair under a prompt name that the table holds, has returned
NamedDualReturned(c) ==
    /\ PromptCallReturned(c)
    /\ calls[c].req.inputs.tag = "Dual"
    /\ is_some(calls[c].req.prompt_name)
    /\ PromptResolves(calls[c].req)

\* call c returned the error of a prompt with a pair
PromptWithDualReturned(c) == Returned(c) = Validation([kind |-> "PromptWithDual"])

\* C15 as stated: encode or tokenize of a Dual input under a prompt name that
\* resolves fails with the error of a prompt with a pair, and the request
\* never entered the queue and no worker dequeued it
C15_AsStated ==
    \A c \in CallIds :
        NamedDualReturned(c) =>
            /\ PromptWithDualReturned(c)
            /\ ~InSeq(c, admitted)
            /\ calls[c].ndeq = 0

\* C15: encode or tokenize of a Dual input under a prompt name that resolves
\* fails with a Validation error, which is the error of a prompt with a pair
\* unless the input is over the character limit and is not to be truncated
\* (then it is the error of the character limit).  The error comes from the
\* worker: the request entered the queue, one worker dequeued it and handled
\* it, and nothing was handed to the tokenizer.
C15_DualUnderPromptName ==
    \A c \in CallIds, w \in Workers :
        NamedDualReturned(c) =>
            /\ IF InputChars(calls[c].req.inputs) <= Limit
                      \/ (calls[c].req.kind = "Encode" /\ calls[c].req.truncate)
               THEN PromptWithDualReturned(c)
               ELSE CharLimitReturned(c)
            /\ Occurrences(c, admitted) = 1
            /\ calls[c].ndeq = 1
            /\ calls[c].ncomp = 1
            /\ calls[c].nsent = 1
            /\ tokenizer[w].last = None

\* tokenize of the pair ("a", "b") named "query" returned the error of a
\* prompt with a pair after a worker dequeued it
C15_Witness ==
    \E c \in CallIds :
        /\ NamedDualReturned(c)
        /\ calls[c].req.kind = "Tokenize"
        /\ calls[c].req.prompt_name = Some("query")
        /\ calls[c].req.inputs = Dual(<<97>>, <<98>>)
        /\ PromptWithDualReturned(c)
        /\ InSeq(c, admitted)
        /\ calls[c].ndeq = 1
\* call c, of a pair under a prompt that resolves, has returned after the
\* test of the character limit let it through
DualReturned(c) ==
    /\ PromptCallReturned(c)
    /\ calls[c].req.inputs.tag = "Dual"
    /\ PromptResolves(calls[c].req)
    /\ \/ InputChars(calls[c].req.inputs) <= Limit
       \/ calls[c].req.kind = "Encode" /\ calls[c].req.truncate

\* the tokenizer of worker w was handed a pair
FedPair(w) ==
    /\ tokenizer[w].last /= None
    /\ unwrap(tokenizer[w].last).input.pair

\* C16: a Dual input is rejected with the error of a prompt with a pair if and
\* only if the resolved prompt, named or default, is non-empty: under no
\* prompt and under the empty string the pair is tokenized as a pair, and
\* under any other prompt, the default prompt of the pool included, it is
\* rejected
C16_DualRejectedIffNonEmpty ==
    \A c \in CallIds, w \in Workers :
        DualReturned(c) =>
            IF After(Prefix(calls[c].req), <<>>) /= <<>>
            THEN PromptWithDualReturned(c)
            ELSE /\ ~PromptWithDualReturned(c)
                 /\ FedPair(w) \/ TokenizerFailed(c)

\* what the code does: a Dual input is rejected if and only if a prompt
\* resolves at all, the empty string included
C16_DualRejectedIffPresent ==
    \A c \in CallIds, w \in Workers :
        DualReturned(c) =>
            IF Prefix(calls[c].req) /= None
            THEN PromptWithDualReturned(c) /\ tokenizer[w].last = None
            ELSE /\ ~PromptWithDualReturned(c)
                 /\ FedPair(w) \/ TokenizerFailed(c)

\* tokenize of the pair ("a", "b") without a prompt name was rejected under
\* the default prompt "", and nothing was handed to the tokenizer
C16_EmptyPromptRejected ==
    \E c \in CallIds, w \in Workers :
        /\ DualReturned(c)
        /\ calls[c].req.kind = "Tokenize"
        /\ calls[c].req.prompt_name = None
        /\ calls[c].req.inputs = Dual(<<97>>, <<98>>)
        /\ default_prompt = Some(<<>>)
        /\ PromptWithDualReturned(c)
        /\ tokenizer[w].last = None
(***************************************************************************)
(* Properties of the workers.                                              *)
(***************************************************************************)
\* worker w ends the computation of a request in this step
Answers(w) == wpc[w] = "computing" /\ wpc'[w] /= "computing"

\* in this step worker w answers its request with the result a fresh
\* tokenizer gives, and if the request reached the tokenizer's encode, the
\* truncation in force there was the one of the request
IndependentStep(w) ==
    /\ calls'[unwrap(cur[w]).id].reply = Some(OwnResult(unwrap(cur[w]).id))
    /\ (unwrap(cur[w]).req.kind /= "Decode" /\ Tokenized(unwrap(cur[w]).req).ok)
          => /\ tokenizer'[w].last /= None
             /\ unwrap(tokenizer'[w].last).truncation =
                    RequestTruncation(unwrap(cur[w]).req)

\* C17: the result of a request depends on the request and on the
\* configuration of the pool only: whichever worker answers it, after
\* whatever requests that worker answered before, the reply is the one a
\* fresh tokenizer gives, and the truncation in force during the encode is
\* the one derived from the request (its direction, max_input_length,
\* longest first, stride 0 when truncate is set, none otherwise)
C17_WorkerIndependence ==
    [][\A w \in Workers : Answers(w) => IndependentStep(w)]_vars

\* the one worker of a pool answered an encode with truncation, then a
\* tokenize of three characters, which came back with all its five tokens
C17_Witness ==
    /\ workers = 1
    /\ Len(calls) = 2
    /\ AllReturned
    /\ calls[1].req.kind = "Encode" /\ calls[1].req.truncate
    /\ Returned(1).ok /\ Len(Returned(1).v.input_ids) = 3
    /\ calls[2].req = Tokenize(Single(<<97, 98, 97>>), TRUE, None)
    /\ Returned(2).ok /\ Len(Returned(2).v.encoding) = 5
    /\ unwrap(tokenizer[1].last).truncation = None
(***************************************************************************)
(* Properties of the offset projection.                                    *)
(***************************************************************************)
\* the bytes of input at the 0-based places start .. stop - 1 that it has
BytesBetween(input, start, stop) ==
    SubSeq(input, start + 1, IF stop < Len(input) THEN stop ELSE Len(input))

\* SimpleToken t is the projection of position p of an encoding of input
ProjectionOf(t, p, input) ==
    /\ t.id = p.id
    /\ IF p.special = 1
       THEN /\ t.special
            /\ t.text = IdText(p.id)
            /\ t.start = None /\ t.stop = None
       ELSE /\ ~t.special
            /\ t.start = Some(p.start) /\ t.stop = Some(p.stop)
            /\ t.text = from_utf8_lossy(BytesBetween(input, p.start, p.stop))

\* into_tokens returned, with one projected token per position, in order
Projected(x) ==
    /\ ~x.out.panic
    /\ Len(x.out.tokens) = Len(x.encoding)
    /\ \A k \in 1..Len(x.encoding) :
           ProjectionOf(x.out.tokens[k], x.encoding[k], x.input)

\* C18: for every encoding and input, into_tokens gives one SimpleToken per
\* position, in order, with the id of the position; a position whose special
\* flag is 1 gives the token text of the tokenizer and no offsets; any other
\* position with offsets (start, stop) gives Some(start), Some(stop) and the
\* input bytes start .. stop - 1 decoded leniently; and into_tokens fails for
\* no offsets
C18_OffsetProjection == projected /= None => Projected(unwrap(projected))

\* C18 for the encodings whose offsets have start <= stop at every position
\* that is not special
C18_OrderedOffsets ==
    (/\ projected /= None
     /\ \A k \in 1..Len(unwrap(projected).encoding) :
            \/ unwrap(projected).encoding[k].special = 1
            \/ unwrap(projected).encoding[k].start <= unwrap(projected).encoding[k].stop)
        => Projected(unwrap(projected))

\* the projection of <s> a (CJK character) </s> over its input: the CJK
\* character at the offsets (1, 4) with its three bytes as text
C18_Witness ==
    /\ projected /= None
    /\ unwrap(projected).input = <<97, 232, 191, 153>>
    /\ Len(unwrap(projected).out.tokens) = 4
    /\ unwrap(projected).out.tokens[1] =
           [id |-> 0, text |-> <<60, 115, 62>>, special |-> TRUE,
            start |-> None, stop |-> None]
    /\ unwrap(projected).out.tokens[3] =
           [id |-> 6, text |-> <<232, 191, 153>>, special |-> FALSE,
            start |-> Some(1), stop |-> Some(4)]

\* into_tokens panicked on the offsets (3, 1)
C18_Underflow ==
    /\ projected /= None
    /\ Len(unwrap(projected).encoding) = 1
    /\ unwrap(projected).encoding[1].start = 3
    /\ unwrap(projected).encoding[1].stop = 1
    /\ unwrap(projected).out.panic

\* into_tokens, built without overflow checks, gave the offsets (3, 1) the
\* text of the input from byte 3 to its end
C18_Wrapped ==
    /\ projected /= None
    /\ unwrap(projected).input = <<195, 169, 98>>
    /\ Len(unwrap(projected).encoding) = 1
    /\ ~unwrap(projected).out.panic
    /\ Len(unwrap(projected).out.tokens) = 1
    /\ unwrap(projected).out.tokens[1].start = Some(2)
    /\ unwrap(projected).out.tokens[1].stop = Some(1)
    /\ unwrap(projected).out.tokens[1].text = <<98>>
(***************************************************************************)
(* Properties of the worker loop.                                          *)
(***************************************************************************)
\* the caller of call c has dropped its reply receiver without a reply
ReceiverDropped(c) == calls[c].pc \in {"cancelled", "panicked"}

\* worker w, holding a request it has dequeued and not begun, moves on
StartsHandling(w) == wpc[w] = "dequeued" /\ wpc'[w] /= "dequeued"

\* worker w computes nothing for the request it holds: its tokenizer, with
\* its truncation, stays as it is, no computation is begun, nothing is sent,
\* and w is back at the queue
NothingComputed(w) ==
    /\ tokenizer'[w] = tokenizer[w]
    /\ calls'[unwrap(cur[w]).id].ncomp = calls[unwrap(cur[w]).id].ncomp
    /\ calls'[unwrap(cur[w]).id].nsent = calls[unwrap(cur[w]).id].nsent
    /\ calls'[unwrap(cur[w]).id].reply = calls[unwrap(cur[w]).id].reply
    /\ wpc'[w] = "recv"
    /\ cur'[w] = None

\* C19: when the reply receiver of a request is already dropped at the moment
\* a worker starts handling the request it dequeued, the worker computes
\* nothing for it (no prompt resolution, no tokenizer call, no change of the
\* truncation of its tokenizer, no metric, nothing sent) and goes on to the
\* next request
C19_SkipWhenReceiverDropped ==
    [][\A w \in Workers :
          (StartsHandling(w) /\ ReceiverDropped(unwrap(cur[w]).id))
              => NothingComputed(w)]_vars

\* a call cancelled in the queue was dequeued and dropped without computation,
\* and the same pool dequeued and answered the call admitted after it
C19_Witness ==
    \E a, b \in 1..Len(served) :
        /\ a < b
        /\ calls[served[a]].pc = "cancelled"
        /\ calls[served[a]].ndeq = 1
        /\ calls[served[a]].ncomp = 0
        /\ calls[served[a]].nsent = 0
        /\ calls[served[a]].tx = "dropped"
        /\ calls[served[b]].ncomp = 1
        /\ calls[served[b]].nsent = 1
\* worker w is at recv_blocking
Idle(w) == wpc[w] = "recv"

\* worker w is handling a request
Busy(w) == wpc[w] \in {"dequeued", "computing"}

\* worker w can dequeue the request at the head of the queue in this state
CanDequeue(w) ==
    ENABLED (/\ wpc[w] = "recv"
             /\ wpc' = [wpc EXCEPT ![w] = "dequeued"]
             /\ cur' = [cur EXCEPT ![w] = Some(Head(queue))]
             /\ queue' = Tail(queue)
             /\ [Next]_vars)

\* C20: workers do not block one another: in no reachable state do an idle
\* worker and a non-empty queue coexist with the idle worker unable to
\* dequeue the head of the queue, whatever the other workers are doing
C20_WorkersDoNotBlock ==
    \A w \in Workers : (Idle(w) /\ queue /= <<>>) => CanDequeue(w)

\* with two workers, one still computing an earlier request while the request
\* admitted after it has been dequeued, answered and returned
C20_Witness ==
    /\ workers = 2
    /\ \E w \in Workers, b \in CallIds :
          /\ wpc[w] = "computing"
          /\ unwrap(cur[w]).id < b
          /\ InSeq(b, served)
          /\ calls[b].pc = "returned"
          /\ calls[b].nsent = 1
(***************************************************************************)
(* Properties of the tokenize path.                                        *)
(***************************************************************************)
\* call c is a tokenize that has returned
TokenizeReturned(c) == calls[c].pc = "returned" /\ calls[c].req.kind = "Tokenize"

\* worker w handed its tokenizer the input of request r as it came, after the
\* prefix if it is a single text, under no truncation
FedWhole(w, r) ==
    /\ tokenizer[w].last /= None
    /\ unwrap(tokenizer[w].last).truncation = None
    /\ r.inputs.tag = "Single" =>
           unwrap(tokenizer[w].last).input =
               [pair |-> FALSE, a |-> After(Prefix(r), r.inputs.s)]
    /\ r.inputs.tag = "Dual" =>
           unwrap(tokenizer[w].last).input =
               [pair |-> TRUE, a |-> r.inputs.s1, b |-> r.inputs.s2]

\* C21 as stated: every tokenize of an input over the character limit fails
\* with CharacterLimitExceeded, whatever its prompt name is
C21_AsStated ==
    \A c \in CallIds :
        (TokenizeReturned(c) /\ InputChars(calls[c].req.inputs) > Limit)
            => CharLimitReturned(c)

\* C21: the tokenize path never truncates.  A tokenize of an input over
\* max_input_length * 250 characters fails, with CharacterLimitExceeded when
\* its prompt name is absent or resolves and with the error of the unknown
\* prompt otherwise, and nothing is handed to the tokenizer; a tokenize that
\* succeeds handed the tokenizer its input unshortened, with truncation
\* disabled.
C21_TokenizeNeverTruncates ==
    \A c \in CallIds, w \in Workers :
        TokenizeReturned(c) =>
            /\ InputChars(calls[c].req.inputs) > Limit =>
                   /\ IF PromptResolves(calls[c].req) THEN CharLimitReturned(c)
                      ELSE UnknownPromptReturned(c)
                   /\ tokenizer[w].last = None
            /\ Returned(c).ok => FedWhole(w, calls[c].req)
            /\ tokenizer[w].truncation = None

\* a tokenize of an input of one character more than the limit returned
\* CharacterLimitExceeded, and its worker's tokenizer was handed nothing
C21_Witness ==
    \E c \in CallIds, w \in Workers :
        /\ TokenizeReturned(c)
        /\ max_input_length = 3
        /\ InputChars(calls[c].req.inputs) = 751
        /\ Returned(c) = Validation([kind |-> "CharLimit", limit |-> 750,
                                      given |-> 751])
        /\ tokenizer[w].last = None
(***************************************************************************)
(* Properties of the pool whose workers do not panic.                      *)
(***************************************************************************)
\* every worker has dropped its Receiver: the queue is closed
QueueClosed == \A w \in Workers : wpc[w] \in {"exited", "dead"}

\* the reply sender of call c was dropped without a value
SenderDropped(c) == calls[c].tx = "dropped" /\ calls[c].reply = None

\* call c is where the abort of a dropped sender or of a dropped receiver
\* strikes: it waits for a reply whose sender is gone, or sends into the
\* closed queue, or has panicked
Aborting(c) ==
    \/ calls[c].pc = "awaiting" /\ SenderDropped(c)
    \/ calls[c].pc = "sending" /\ QueueClosed
    \/ calls[c].pc = "panicked"

\* C22: where no worker panics and the pool has at least one worker, no
\* protocol violation is reachable: a reply sender is dropped without a value
\* only when the caller had dropped the receiver, the queue is not closed
\* while a Tokenization exists, and no call that holds its receiver meets
\* the abort of a dropped sender or of a dropped receiver
C22_NoProtocolViolation ==
    /\ \A c \in CallIds : SenderDropped(c) => calls[c].pc = "cancelled"
    /\ handle => ~QueueClosed
    /\ \A c \in CallIds : ~Aborting(c)

\* while the Tokenization exists and every worker is at its loop, a worker
\* has dropped the reply sender of a cancelled call it dequeued, and another
\* call has its reply
C22_Witness ==
    /\ handle
    /\ \A w \in Workers : wpc[w] \in {"recv", "dequeued", "computing"}
    /\ \E c, d \in CallIds :
          /\ calls[c].pc = "cancelled" /\ calls[c].ndeq = 1 /\ SenderDropped(c)
          /\ calls[d].pc = "returned" /\ calls[d].nsent = 1
====
